---- MODULE Spec2Model ----
(***************************************************************************)
(* Model of the downloader core of instatok-downloader-backend:            *)
(*   - services/proxy_manager.py      (ProxyManager: the proxy pool)       *)
(*   - services/instagram_downloader.py (retry / backoff / fallback loop)  *)
(*   - services/downloader_factory.py (DownloaderFactory.get_downloader)   *)
(*   - services/instagram_alternative_downloader.py, tiktok_downloader.py  *)
(*   - routes/downloads.py            (VideoDownload.post, VideoInfo.post) *)
(* Spec     : download requests, handled one at a time.                    *)
(* FairSpec : Spec with weak fairness on the steps of a running fetch.     *)
(* PoolSpec : the operations of the proxy pool, called one at a time.      *)
(* TrustSpec: Spec with the endpoints of the startup list remembered.      *)
(* ConcSpec : two threads inside ProxyManager.get_proxy, line by line.     *)
(* RaceSpec : fetch_proxies line by line against get_random_proxy and      *)
(*            remove_proxy called from other threads.                      *)
(* SoloSpec : fetch_proxies line by line with no other thread running.     *)
(* FrameSpec: SoloSpec with get_proxy and remove_proxy calls between the   *)
(*            calls of fetch_proxies.                                      *)
(* ProbeSpec: get_working_proxy line by line, on pools of up to MaxPool    *)
(*            endpoints.                                                   *)
(* InfoSpec : info requests (VideoInfo.post), handled one at a time, under *)
(*            every configuration of the platform list and the toggle.     *)
(* ThrottleSpec: the Instagram metadata calls of consecutive requests on   *)
(*            the process clock.                                           *)
(* MediaSpec: _download_video_with_proxy line by line.                     *)
(* IdSpec   : extract_video_id of every strategy and the names a           *)
(*            successful get_video_stream returns, on URLs of up to        *)
(*            MaxSegs path segments.                                       *)
(***************************************************************************)
EXTENDS Integers, Sequences, FiniteSets, TLC

\* ---------------------------------------------------------------- bounds
NumUrls == 2         \* distinct proxy addresses the outside world can name
MaxFetched == 2      \* proxies all the sources together return in one refresh
MaxEnvLen == 2       \* entries in the WEBSHARE_PROXIES variable
MaxCalls == 4        \* get_proxy calls observed in one run of consecutive calls
MaxUrlParts == 2     \* pieces of text in a request URL
MaxPlatforms == 2    \* names in Config.SUPPORTED_PLATFORMS
MaxPool == 11        \* endpoints in the pool get_working_proxy probes
MaxClock == 24       \* seconds of process clock observed
MaxSegs == 3         \* path segments of a URL given to extract_video_id

\* ------------------------------------------------------ program constants
\* faulty variant: one attempt too many
max_retries_more == 3 + 1
\* self.max_retries = 3
max_retries == 3
NumSources == 3
ConnBackoff == 5
GenericBackoff == 3
MAX_DOWNLOAD_SIZE_MB == 500
MaxProbes == 10
\* self.min_request_interval = 3
min_request_interval == 3

UrlNames ==
    <<"http://h1:80", "http://h2:80", "http://h3:80", "http://h4:80",
      "http://h5:80", "http://h6:80", "http://h7:80", "http://h8:80",
      "http://h9:80", "http://h10:80", "http://h11:80", "http://h12:80",
      "http://h13:80">>
Urls == {UrlNames[i] : i \in 1..NumUrls}

\* the proxy dict {"http": url, "https": url}
Endpoint(u) == [http |-> u, https |-> u]
Endpoints == {Endpoint(u) : u \in Urls}

SeqsUpTo(S, n) == UNION {[1..k -> S] : k \in 0..n}
Elems(s) == {s[i] : i \in 1..Len(s)}

Threads == {1, 2}

VARIABLES
    proxies,        \* ProxyManager.proxies : sequence of proxy dicts
    current_index,  \* ProxyManager.current_index
    webshare,       \* os.getenv("WEBSHARE_PROXIES") is non-empty
    pc,             \* position of the single caller
    attempt,        \* loop variable of get_video_stream
    exc,            \* exception being handled (its message)
    session_proxy,  \* loader.context._session.proxies, <<>> when unset
    returned,       \* value returned by get_video_stream, <<>> or <<payload>>
    raised,         \* exception raised by get_video_stream, <<>> or <<error>>
    response,       \* HTTP response of VideoDownload.post, <<>> or <<resp>>
    errs,           \* history: failure of each primary attempt so far
    waits,          \* history: time.sleep backoffs of this fetch
    metaCalls,      \* history: Post.from_shortcode calls of this fetch
    altCalls,       \* history: alternate get_video_stream calls of this fetch
    altErr,         \* history: error of the alternate attempt, <<>> if none
    wproxy,         \* history: what get_working_proxy returned in the latest attempt
    strategy,       \* class of the downloader get_downloader returned, "" when idle
    selCalls,       \* history: get_video_stream calls on a selected TikTok or alternate downloader
    selRun,         \* history: the run of that call, <<>> or <<run>>
    altRun,         \* history: the run of the alternate called as fallback, <<>> or <<run>>
    events,         \* history: what the fetch did so far, in order
    nextRet,        \* value the get_proxy call returned, when it was the last operation
    nextRaised,     \* that get_proxy call raised IndexError
    winStart,       \* history: cursor when the run of get_proxy calls began
    winCalls,       \* history: get_proxy calls in the current run
    winRet,         \* history: endpoints returned in the current run
    tpc,            \* ConcSpec: line each thread is at inside get_proxy
    tproxy,         \* ConcSpec: local variable proxy of each thread
    ttmp,           \* ConcSpec: evaluated right-hand side of line 137
    roundStart,     \* ConcSpec history: cursor when both threads were idle
    lastOp,         \* history: the pool operation that completed last
    dupKinds,       \* history: kinds of duplicates the last refresh was fed
    evictArg,       \* history: argument of remove_proxy, when it was the last operation
    fpc,            \* RaceSpec: where the thread inside fetch_proxies is
    fsrc,           \* RaceSpec: index of the source the for loop is at
    fgot,           \* RaceSpec: proxies the sources returned so far in this call
    fi,             \* RaceSpec: position of the dedup loop's list iterator
    fseen,          \* RaceSpec: local seen_urls
    funique,        \* RaceSpec: local unique_proxies
    fstart,         \* RaceSpec history: the pool when fetch_proxies was entered
    ffetched,       \* RaceSpec history: endpoints the sources returned in this call
    fresults,       \* RaceSpec history: for each source queried so far, whether it returned
    rpc,            \* RaceSpec: where the thread inside get_random_proxy is
    rret,           \* RaceSpec: what get_random_proxy returned
    sawMerged,      \* RaceSpec history: get_random_proxy chose from a merged, not yet deduplicated pool
    evicted,        \* RaceSpec history: endpoints removed since fetch_proxies was entered
    platforms,      \* Config.SUPPORTED_PLATFORMS
    use_alt,        \* os.getenv("USE_ALT_INSTAGRAM") is "true"
    allowed_domains,\* Config.ALLOWED_DOMAINS
    ipc,            \* InfoSpec: position of the info request
    req_url,        \* InfoSpec: video_url of the request, <<>> or <<url>>
    selected,       \* InfoSpec: class of the downloader get_downloader returned
    info_ret,       \* InfoSpec: what get_video_url returned, <<>> or <<pair>>
    info_raised,    \* InfoSpec: exception class raised inside the handler, "" if none
    info_response,  \* InfoSpec: HTTP response of VideoInfo.post
    wpc,            \* ProbeSpec: line the caller is at inside get_working_proxy
    tested,         \* ProbeSpec: local tested, the probes made in this call
    wmax,           \* ProbeSpec: local max_tests
    wret,           \* ProbeSpec: what get_working_proxy returned
    passes,         \* ProbeSpec history: probes of this call that passed
    probed,         \* ProbeSpec history: the endpoint probed last
    trusted,        \* TrustSpec, ProbeSpec history: endpoints loaded from WEBSHARE_PROXIES
    now,            \* ThrottleSpec: time.time(), in seconds
    kpc,            \* ThrottleSpec: position of the request being handled
    kkind,          \* ThrottleSpec: "fetch" (get_video_stream) or "resolve" (get_video_url)
    last_request_time, \* ThrottleSpec: field of the downloader serving the request
    kattempt,       \* ThrottleSpec: loop variable of get_video_stream
    kexc,           \* ThrottleSpec: failure being handled
    rateLimited,    \* ThrottleSpec history: _rate_limit ran since the latest metadata call
    metaAt,         \* ThrottleSpec history: clock at the latest metadata call, <<>> if none
    metaGap,        \* ThrottleSpec history: seconds between the two latest metadata calls
    metaThrottled,  \* ThrottleSpec history: _rate_limit ran between the two latest metadata calls
    idpc,           \* IdSpec: position of the request
    id_url,         \* IdSpec: URL of the request, <<>> or <<url>>
    id_cls,         \* IdSpec: class of the selected downloader, "" when idle
    id_out,         \* IdSpec: what extract_video_id returned, <<>> or <<id>>
    id_producer,    \* IdSpec: who produced the payload, "" if none
    id_names,       \* IdSpec: video_id and filename returned by get_video_stream
    mpc,            \* MediaSpec: where the caller of _download_video_with_proxy is
    mproxy,         \* MediaSpec: local proxy, <<>> for None
    mi,             \* MediaSpec: position of the loop in attempts
    mreqs           \* MediaSpec history: the requests made in this call

poolVars == <<proxies, current_index, webshare>>
fetchVars == <<pc, attempt, exc, session_proxy, returned, raised, response,
               strategy>>
fetchHist == <<errs, waits, metaCalls, altCalls, altErr, wproxy, selCalls,
               selRun, altRun, events>>
nextVars == <<nextRet, nextRaised>>
winVars == <<winStart, winCalls, winRet>>
opVars == <<lastOp, dupKinds, evictArg>>
concVars == <<tpc, tproxy, ttmp, roundStart>>
raceVars == <<fpc, fsrc, fgot, fi, fseen, funique, fstart, ffetched, fresults,
              rpc, rret, sawMerged, evicted>>
cfgVars == <<platforms, use_alt, allowed_domains, trusted>>
infoVars == <<ipc, req_url, selected, info_ret, info_raised, info_response>>
probeVars == <<wpc, tested, wmax, wret, passes, probed>>
throttleVars == <<now, kpc, kkind, last_request_time, kattempt, kexc,
                  rateLimited, metaAt, metaGap, metaThrottled>>
idVars == <<idpc, id_url, id_cls, id_out, id_producer, id_names>>
mediaVars == <<mpc, mproxy, mi, mreqs>>
vars == <<poolVars, fetchVars, fetchHist, nextVars, winVars, concVars, opVars,
          raceVars, cfgVars, infoVars, probeVars, throttleVars, idVars,
          mediaVars>>

\* ------------------------------------------------------------ ProxyManager

\* what one source function does: raise, or return a list of at most n proxy dicts
SourceResults(n) ==
    {[ok |-> FALSE, proxies |-> <<>>]}
    \cup {[ok |-> TRUE, proxies |-> s] : s \in SeqsUpTo(Endpoints, n)}

\* faulty variant: what a source returned is put in front of the pool
ExtendFrom_front(pool, r) ==
    IF r.ok /\ r.proxies # <<>> THEN r.proxies \o pool ELSE pool
\* body of the for-loop over the sources: try / if proxies: extend / except
ExtendFrom(pool, r) ==
    IF r.ok /\ r.proxies # <<>> THEN pool \o r.proxies ELSE pool

RECURSIVE MergeSources(_, _)
MergeSources(pool, rs) ==
    IF rs = <<>> THEN pool
    ELSE MergeSources(ExtendFrom(pool, Head(rs)), Tail(rs))

\* faulty variant: a dedup that only remembers the key it saw last
RECURSIVE Unique_adjacent(_, _, _)
Unique_adjacent(ps, seen, acc) ==
    IF ps = <<>> THEN acc
    ELSE IF Head(ps).http \notin seen
         THEN Unique_adjacent(Tail(ps), {Head(ps).http}, Append(acc, Head(ps)))
         ELSE Unique_adjacent(Tail(ps), seen, acc)

\* the dedup loop: keep the first proxy of every "http" key
RECURSIVE Unique(_, _, _)
Unique(ps, seen, acc) ==
    IF ps = <<>> THEN acc
    ELSE IF Head(ps).http \notin seen
         THEN Unique(Tail(ps), seen \cup {Head(ps).http}, Append(acc, Head(ps)))
         ELSE Unique(Tail(ps), seen, acc)

fetch_proxies(pool, rs) == Unique(MergeSources(pool, rs), {}, <<>>)

\* what the sources return in one run of fetch_proxies, one result per source,
\* at most budget proxies in all
Got(r) == IF r.ok THEN r.proxies ELSE <<>>
RECURSIVE RunsWithin(_, _)
RunsWithin(k, budget) ==
    IF k = 0 THEN {<<>>}
    ELSE UNION {{<<r>> \o rest : rest \in RunsWithin(k - 1, budget - Len(Got(r)))} :
                    r \in SourceResults(budget)}
SourceRuns == RunsWithin(NumSources, MaxFetched)

\* history only: which kinds of duplicates a refresh with source results rs meets
Keys(s) == {s[i].http : i \in 1..Len(s)}
DupKinds(pool, rs) ==
    {k \in {"within", "across", "pool"} :
        \/ /\ k = "within"
           /\ \E n \in 1..Len(rs) : Cardinality(Keys(Got(rs[n]))) < Len(Got(rs[n]))
        \/ /\ k = "across"
           /\ \E m, n \in 1..Len(rs) : m < n /\ Keys(Got(rs[m])) \cap Keys(Got(rs[n])) # {}
        \/ /\ k = "pool"
           /\ \E n \in 1..Len(rs) : Keys(pool) \cap Keys(Got(rs[n])) # {}}

\* one WEBSHARE_PROXIES entry: it has four ':'-separated parts or it has not
WebshareEntries == [parts4 : BOOLEAN, url : Urls]
WebshareEnvs == SeqsUpTo(WebshareEntries, MaxEnvLen)

RECURSIVE load_webshare(_)
load_webshare(env) ==
    IF env = <<>> THEN <<>>
    ELSE IF Head(env).parts4
         THEN <<Endpoint(Head(env).url)>> \o load_webshare(Tail(env))
         ELSE load_webshare(Tail(env))

\* list.remove: drop the first equal element, ValueError swallowed
RECURSIVE remove_proxy(_, _)
remove_proxy(pool, p) ==
    IF pool = <<>> THEN <<>>
    ELSE IF Head(pool) = p THEN Tail(pool)
         ELSE <<Head(pool)>> \o remove_proxy(Tail(pool), p)

\* get_proxy as one call: [ret, raised, idx]
get_proxy(pool, idx) ==
    IF pool = <<>> THEN [ret |-> <<>>, raised |-> FALSE, idx |-> idx]
    ELSE IF idx >= Len(pool)
         THEN [ret |-> <<>>, raised |-> TRUE, idx |-> idx]
         ELSE [ret |-> <<pool[idx + 1]>>, raised |-> FALSE,
               idx |-> (idx + 1) % Len(pool)]

\* the values get_random_proxy can return
get_random_proxy(pool) ==
    IF pool = <<>> THEN {<<>>} ELSE {<<pool[i]>> : i \in 1..Len(pool)}

\* the values get_working_proxy can return (every probe may pass or fail)
get_working_proxy(pool, ws) ==
    IF pool = <<>> THEN {<<>>}
    ELSE IF ws THEN get_random_proxy(pool)
         ELSE get_random_proxy(pool) \cup {<<>>}


\* ------------------------------------------------------------ request URLs

\* the pieces of text a request URL is written from
UrlParts ==
    {"instagram.com", "www.INSTAGRAM.com", "vm.tiktok.com", "TikTok.com",
     "example.com", "/reel/abc"}

\* a request URL: its text, and whether validators.url accepts its format;
\* a text of MaxUrlParts parts stays below the 2048 characters of line 15
RequestUrls == [wellformed : BOOLEAN, text : SeqsUpTo(UrlParts, MaxUrlParts)]

\* str.lower() of one part
lower(part) ==
    CASE part = "www.INSTAGRAM.com" -> "www.instagram.com"
      [] part = "TikTok.com" -> "tiktok.com"
      [] OTHER -> part

\* the domain names that are substrings of a lower-case part
DomainsIn(part) ==
    CASE part = "instagram.com" -> {"instagram.com"}
      [] part = "www.instagram.com" -> {"instagram.com", "www.instagram.com"}
      [] part = "tiktok.com" -> {"tiktok.com"}
      [] part = "vm.tiktok.com" -> {"tiktok.com", "vm.tiktok.com"}
      [] part = "example.com" -> {"example.com"}
      [] OTHER -> {}

\* domain in url.lower()
InLower(domain, url) ==
    \E i \in 1..Len(url.text) : domain \in DomainsIn(lower(url.text[i]))

\* Config.ALLOWED_DOMAINS: its default, and a deployment that allows one more
DefaultAllowedDomains ==
    {"instagram.com", "www.instagram.com", "tiktok.com", "www.tiktok.com"}
AllowedDomainSets == {DefaultAllowedDomains, DefaultAllowedDomains \cup {"example.com"}}

\* middleware.validators.validate_video_url
validate_video_url(url, allowed) ==
    IF url.text = <<>> THEN [ok |-> FALSE, msg |-> "URL is required"]
    ELSE IF ~url.wellformed THEN [ok |-> FALSE, msg |-> "Invalid URL format"]
    ELSE IF ~(\E domain \in allowed : InLower(domain, url))
         THEN [ok |-> FALSE, msg |-> "Unsupported platform"]
         ELSE [ok |-> TRUE, msg |-> ""]

\* ------------------------------------------------------- DownloaderFactory

\* the names Config.SUPPORTED_PLATFORMS can list
PlatformNames == {"instagram", "tiktok", "instagram_alt", "youtube"}
PlatformLists == SeqsUpTo(PlatformNames, MaxPlatforms)
DefaultPlatforms == <<"instagram", "tiktok">>

\* DownloaderFactory._downloaders
downloaders ==
    [name \in {"instagram", "instagram_alt", "tiktok"} |->
        CASE name = "instagram" -> "InstagramDownloader"
          [] name = "instagram_alt" -> "InstagramAlternativeDownloader"
          [] name = "tiktok" -> "TikTokDownloader"]

\* validate_url of each downloader class
validate_url(cls, url) ==
    CASE cls = "InstagramDownloader" -> InLower("instagram.com", url)
      [] cls = "InstagramAlternativeDownloader" -> InLower("instagram.com", url)
      [] cls = "TikTokDownloader" ->
            InLower("tiktok.com", url) \/ InLower("vm.tiktok.com", url)

\* faulty variant: every configured name is looked up in the class table
IsImplemented_any(name) == TRUE
\* platform_name in ["instagram", "tiktok"]
IsImplemented(name) == name \in {"instagram", "tiktok"}

\* faulty variant: the toggle is ignored
InstagramClass_default(use_alt_instagram) == "InstagramDownloader"
\* the class the instagram branch instantiates
InstagramClass(use_alt_instagram) ==
    IF use_alt_instagram THEN "InstagramAlternativeDownloader"
    ELSE "InstagramDownloader"

\* DownloaderFactory.get_downloader, the loop from platform list ps on;
\* ok = FALSE is ValueError("Unsupported platform ...")
RECURSIVE get_downloader(_, _, _)
get_downloader(ps, use_alt_instagram, url) ==
    IF ps = <<>> THEN [ok |-> FALSE, cls |-> ""]
    ELSE LET platform_name == Head(ps) IN
         IF ~IsImplemented(platform_name)
         THEN get_downloader(Tail(ps), use_alt_instagram, url)
         ELSE IF platform_name = "instagram" /\ InLower("instagram.com", url)
         THEN [ok |-> TRUE, cls |-> InstagramClass(use_alt_instagram)]
         ELSE IF /\ platform_name \in DOMAIN downloaders
                 /\ validate_url(downloaders[platform_name], url)
         THEN [ok |-> TRUE, cls |-> downloaders[platform_name]]
         ELSE get_downloader(Tail(ps), use_alt_instagram, url)

\* ------------------------------------------------- InstagramDownloader

\* what one pass through the try body can end in
ErrKinds == {"connection_blocked", "network_error", "not_a_video"}

\* except instaloader.exceptions.ConnectionException catches it
IsConnectionException(k) == k = "connection_blocked"

\* the spec's classification: not-a-video is a platform-side, non-transient failure
Transient(k) == k # "not_a_video"

\* faulty variant: the last attempt is treated like the others
HasRetriesLeft_late(a) == a < max_retries
\* faulty variant: gives up one attempt early
HasRetriesLeft_early(a) == a < max_retries - 2
\* attempt < self.max_retries - 1
HasRetriesLeft(a) == a < max_retries - 1

\* faulty variant: the wait does not grow with the attempt
ConnWait_flat(a) == ConnBackoff
\* wait_time = (attempt + 1) * 5
ConnWait(a) == (a + 1) * ConnBackoff

\* wait_time = (attempt + 1) * 3
GenericWait(a) == (a + 1) * GenericBackoff

PayloadSizes == {1, MAX_DOWNLOAD_SIZE_MB + 1}

\* (video_data, shortcode, filename) returned by the primary strategy
PrimaryPayload(sz) ==
    [producer |-> "instagram", video_id |-> "shortcode",
     filename |-> "instagram_shortcode.mp4", size_mb |-> sz]

\* (video_data, shortcode, filename) returned by InstagramAlternativeDownloader
AltPayload(sz) ==
    [producer |-> "instagram_alt", video_id |-> "shortcode",
     filename |-> "instagram_shortcode.mp4", size_mb |-> sz]

\* ValueError("Instagram is blocking requests. ...")
BlockingError ==
    [msg |-> "Instagram is blocking requests", original |-> "", alternative |-> ""]

\* faulty variant: the primary's error is dropped from the report
FallbackError_altonly(e, alt_e) ==
    [msg |-> "Failed to download Instagram video with all methods",
     original |-> "", alternative |-> alt_e]
\* ValueError("Failed to download ... Original error: e, Alternative error: alt_e")
FallbackError(e, alt_e) ==
    [msg |-> "Failed to download Instagram video with all methods",
     original |-> e, alternative |-> alt_e]

\* replies of the RapidAPI mirror to the one API request
AltApiReplies ==
    {"timeout", "403_not_subscribed", "403", "429", "200_unsuccessful",
     "200_no_data", "200_no_video", "200_video"}

\* replies of the tikwm API
TikTokApiReplies == {"timeout", "429", "code_nonzero", "code_0"}

\* replies to the request for the media file; http_error is a status other
\* than 403
MediaReplies == {"200", "403", "http_error", "timeout"}

\* one run of a get_video_stream that has no retry loop: its result and
\* what it did on the way
StreamRun(ok, err, sz, key, api, media, throttled, api_calls, media_calls) ==
    [ok |-> ok, err |-> err, size_mb |-> sz, key |-> key, api |-> api,
     media |-> media, throttled |-> throttled, api_calls |-> api_calls,
     media_calls |-> media_calls]

\* faulty variant: the throttle step runs before the key is looked at
alt_missing_key_throttled ==
    StreamRun(FALSE, "RAPIDAPI_KEY not configured", 0, FALSE, "none", "none",
              TRUE, 0, 0)
\* if not self.rapidapi_key: raise ValueError(...)
alt_missing_key ==
    StreamRun(FALSE, "RAPIDAPI_KEY not configured", 0, FALSE, "none", "none",
              FALSE, 0, 0)

\* InstagramAlternativeDownloader.get_video_stream
alt_get_video_stream(key, api, media, sz) ==
    IF ~key THEN alt_missing_key
    ELSE IF api = "403"
    THEN StreamRun(FALSE, "API subscription required", 0, TRUE, api, "none",
                   TRUE, 1, 0)
    ELSE IF api = "429"
    THEN StreamRun(FALSE, "RapidAPI request failed", 0, TRUE, api, "none",
                   TRUE, 1, 0)
    ELSE IF api # "200_video"
    THEN StreamRun(FALSE, "Failed to download Instagram video via RapidAPI", 0,
                   TRUE, api, "none", TRUE, 1, 0)
    ELSE IF media = "200"
    THEN StreamRun(TRUE, "", sz, TRUE, api, media, TRUE, 1, 1)
    ELSE IF media = "403"
    THEN StreamRun(FALSE, "API subscription required", 0, TRUE, api, media,
                   TRUE, 1, 1)
    ELSE IF media = "http_error"
    THEN StreamRun(FALSE, "RapidAPI request failed", 0, TRUE, api, media,
                   TRUE, 1, 1)
    ELSE StreamRun(FALSE, "Failed to download Instagram video via RapidAPI", 0,
                   TRUE, api, media, TRUE, 1, 1)

\* TikTokDownloader.get_video_stream
tiktok_get_video_stream(api, media, sz) ==
    IF api # "code_0"
    THEN StreamRun(FALSE, "TikTok download failed", 0, TRUE, api, "none",
                   FALSE, 1, 0)
    ELSE IF media = "200"
    THEN StreamRun(TRUE, "", sz, TRUE, api, media, FALSE, 1, 1)
    ELSE StreamRun(FALSE, "TikTok download failed", 0, TRUE, api, media,
                   FALSE, 1, 1)

\* (video_data, video_id, filename) returned by TikTokDownloader
TikTokPayload(sz) ==
    [producer |-> "tiktok", video_id |-> "video_id",
     filename |-> "tiktok_video_id.mp4", size_mb |-> sz]

\* a ValueError raised by a strategy that has no fallback
PlainError(msg) == [msg |-> msg, original |-> "", alternative |-> ""]

\* messages of the ValueErrors InstagramAlternativeDownloader.get_video_stream raises
AltErrors ==
    {"API subscription required", "RapidAPI request failed",
     "Failed to download Instagram video via RapidAPI"}

\* outcomes of InstagramAlternativeDownloader().get_video_stream(url)
AltResults(key) ==
    {alt_get_video_stream(key, api, media, sz) :
        api \in AltApiReplies, media \in MediaReplies, sz \in PayloadSizes}

\* ---------------------------------------------------------------- Init

\* ProxyManager.__init__ -> load_proxies
load_proxies(env, rs) ==
    IF env # <<>> THEN load_webshare(env) ELSE fetch_proxies(<<>>, rs)

\* no thread is inside fetch_proxies or get_random_proxy
RaceIdle ==
    /\ fpc = "idle"
    /\ fsrc = 0
    /\ fgot = 0
    /\ fi = 0
    /\ fseen = {}
    /\ funique = <<>>
    /\ fstart = <<>>
    /\ ffetched = {}
    /\ fresults = <<>>
    /\ rpc = "idle"
    /\ rret = <<>>
    /\ sawMerged = FALSE
    /\ evicted = {}

\* no info request is being handled
InfoIdle ==
    /\ ipc = "idle"
    /\ req_url = <<>>
    /\ selected = <<>>
    /\ info_ret = <<>>
    /\ info_raised = ""
    /\ info_response = <<>>

\* no caller is inside get_working_proxy
ProbeIdle ==
    /\ wpc = "idle"
    /\ tested = 0
    /\ wmax = 0
    /\ wret = <<>>
    /\ passes = 0
    /\ probed = <<>>

\* no request has made a metadata call; the clock reads the least value
\* that, like the epoch time, is min_request_interval past zero
ThrottleIdle ==
    /\ now = min_request_interval
    /\ kpc = "idle"
    /\ kkind = ""
    /\ last_request_time = 0
    /\ kattempt = 0
    /\ kexc = ""
    /\ rateLimited = FALSE
    /\ metaAt = <<>>
    /\ metaGap = <<>>
    /\ metaThrottled = FALSE

\* no request is being served by IdSpec
IdIdle ==
    /\ idpc = "idle"
    /\ id_url = <<>>
    /\ id_cls = ""
    /\ id_out = <<>>
    /\ id_producer = ""
    /\ id_names = <<>>

\* no caller is inside _download_video_with_proxy
MediaIdle ==
    /\ mpc = "idle"
    /\ mproxy = <<>>
    /\ mi = 0
    /\ mreqs = <<>>

\* no request is being handled and no thread is inside the pool
Quiet ==
    /\ RaceIdle
    /\ MediaIdle
    /\ ThrottleIdle
    /\ IdIdle
    /\ evictArg = <<>>
    /\ current_index = 0
    /\ pc = "idle"
    /\ attempt = 0
    /\ exc = ""
    /\ session_proxy = <<>>
    /\ returned = <<>>
    /\ raised = <<>>
    /\ response = <<>>
    /\ errs = <<>>
    /\ waits = <<>>
    /\ metaCalls = 0
    /\ altCalls = 0
    /\ altErr = <<>>
    /\ wproxy = <<>>
    /\ strategy = ""
    /\ selCalls = 0
    /\ selRun = <<>>
    /\ altRun = <<>>
    /\ events = <<>>
    /\ nextRet = <<>>
    /\ nextRaised = FALSE
    /\ winStart = 0
    /\ winCalls = 0
    /\ winRet = <<>>
    /\ tpc = [t \in Threads |-> "idle"]
    /\ tproxy = [t \in Threads |-> <<>>]
    /\ ttmp = [t \in Threads |-> 0]
    /\ roundStart = 0
    /\ InfoIdle
    /\ ProbeIdle

\* ProxyManager() at import time
PoolLoaded ==
    \/ \E env \in WebshareEnvs \ {<<>>} :
          /\ webshare = TRUE
          /\ proxies = load_proxies(env, <<>>)
          /\ lastOp = "load"
          /\ dupKinds = {}
    \/ \E rs \in SourceRuns :
          /\ webshare = FALSE
          /\ proxies = load_proxies(<<>>, rs)
          /\ lastOp = "refresh"
          /\ dupKinds = DupKinds(<<>>, rs)

\* the default platform list and allowed domains; the toggle is set or not
Init ==
    /\ PoolLoaded
    /\ platforms = DefaultPlatforms
    /\ use_alt \in BOOLEAN
    /\ allowed_domains = DefaultAllowedDomains
    /\ trusted = {}
    /\ Quiet

\* Init with the startup list kept: what load_proxies put in the pool when
\* WEBSHARE_PROXIES is set
TrustInit ==
    /\ PoolLoaded
    /\ platforms = DefaultPlatforms
    /\ use_alt \in BOOLEAN
    /\ allowed_domains = DefaultAllowedDomains
    /\ trusted = IF webshare THEN Elems(proxies) ELSE {}
    /\ Quiet

\* a run of consecutive get_proxy calls ends: start observing a new one
WinReset(idx) ==
    /\ winStart' = idx
    /\ winCalls' = 0
    /\ winRet' = <<>>

\* ----------------------------------------------- pool operations (Spec)

\* proxy_manager.fetch_proxies()
Refresh ==
    /\ pc = "idle"
    /\ \E rs \in SourceRuns :
          /\ proxies' = fetch_proxies(proxies, rs)
          /\ dupKinds' = DupKinds(proxies, rs)
    /\ lastOp' = "refresh"
    /\ evictArg' = <<>>
    /\ WinReset(current_index)
    /\ nextRet' = <<>>
    /\ nextRaised' = FALSE
    /\ UNCHANGED <<current_index, webshare, fetchVars, fetchHist, concVars,
                   raceVars, cfgVars, mediaVars, idVars, throttleVars,
                   probeVars, infoVars>>

\* proxy_manager.get_proxy()
Next_ ==
    /\ pc = "idle"
    /\ winCalls < MaxCalls
    /\ LET r == get_proxy(proxies, current_index) IN
          /\ nextRet' = r.ret
          /\ nextRaised' = r.raised
          /\ current_index' = r.idx
          /\ winRet' = winRet \o r.ret
    /\ winCalls' = winCalls + 1
    /\ lastOp' = "next"
    /\ evictArg' = <<>>
    /\ dupKinds' = {}
    /\ UNCHANGED <<proxies, webshare, winStart, fetchVars, fetchHist, concVars,
                   raceVars, cfgVars, mediaVars, idVars, throttleVars,
                   probeVars, infoVars>>

\* proxy_manager.remove_proxy(p)
Evict ==
    /\ pc = "idle"
    /\ \E p \in Endpoints :
          /\ proxies' = remove_proxy(proxies, p)
          /\ evictArg' = <<p>>
    /\ lastOp' = "evict"
    /\ dupKinds' = {}
    /\ WinReset(current_index)
    /\ nextRet' = <<>>
    /\ nextRaised' = FALSE
    /\ UNCHANGED <<current_index, webshare, fetchVars, fetchHist, concVars,
                   raceVars, cfgVars, mediaVars, idVars, throttleVars,
                   probeVars, infoVars>>

\* ------------------------------------------- get_video_stream (Spec)

\* where get_video_stream of the selected class begins
EntryOf(cls) ==
    CASE cls = "InstagramDownloader" -> "try"
      [] cls = "InstagramAlternativeDownloader" -> "alt_selected"
      [] cls = "TikTokDownloader" -> "tiktok"

\* VideoDownload.post answers 400: the URL is invalid or no platform takes it
RejectRequest ==
    /\ pc = "idle"
    /\ \E url \in RequestUrls :
          LET v == validate_video_url(url, allowed_domains)
              d == get_downloader(platforms, use_alt, url)
          IN  /\ ~v.ok \/ ~d.ok
              /\ response' =
                    <<[status |-> 400,
                       body |-> IF ~v.ok THEN v.msg ELSE "Unsupported platform"]>>
    /\ pc' = "rejected"
    /\ UNCHANGED <<poolVars, attempt, exc, session_proxy, returned, raised,
                   strategy, fetchHist, nextVars, winVars, concVars, raceVars,
                   cfgVars, mediaVars, idVars, throttleVars, probeVars,
                   infoVars, opVars>>

\* TikTokDownloader.get_video_stream, called once by VideoDownload.post
TikTokFetch ==
    /\ pc = "tiktok"
    /\ selCalls' = selCalls + 1
    /\ \E api \in TikTokApiReplies, media \in MediaReplies, sz \in PayloadSizes :
          LET r == tiktok_get_video_stream(api, media, sz) IN
          /\ selRun' = <<r>>
          /\ events' = Append(events, "stream")
          /\ IF r.ok
             THEN /\ returned' = <<TikTokPayload(r.size_mb)>>
                  /\ UNCHANGED raised
             ELSE /\ raised' = <<PlainError(r.err)>>
                  /\ UNCHANGED returned
    /\ pc' = "done"
    /\ UNCHANGED <<poolVars, attempt, exc, session_proxy, response, strategy,
                   errs, waits, metaCalls, altCalls, altErr, wproxy, altRun,
                   nextVars, winVars, concVars, raceVars, cfgVars, mediaVars,
                   idVars, throttleVars, probeVars, infoVars, opVars>>

\* InstagramAlternativeDownloader.get_video_stream as the selected strategy,
\* called once by VideoDownload.post
AltFetch ==
    /\ pc = "alt_selected"
    /\ selCalls' = selCalls + 1
    /\ \E key \in BOOLEAN : \E r \in AltResults(key) :
          /\ selRun' = <<r>>
          /\ events' = Append(events, "stream")
          /\ IF r.ok
             THEN /\ returned' = <<AltPayload(r.size_mb)>>
                  /\ UNCHANGED raised
             ELSE /\ raised' = <<PlainError(r.err)>>
                  /\ UNCHANGED returned
    /\ pc' = "done"
    /\ UNCHANGED <<poolVars, attempt, exc, session_proxy, response, strategy,
                   errs, waits, metaCalls, altCalls, altErr, wproxy, altRun,
                   nextVars, winVars, concVars, raceVars, cfgVars, mediaVars,
                   idVars, throttleVars, probeVars, infoVars, opVars>>

\* VideoDownload.post up to downloader.get_video_stream(video_url);
\* get_video_stream up to the for loop
StartFetch ==
    /\ pc = "idle"
    /\ \E url \in RequestUrls :
          LET d == get_downloader(platforms, use_alt, url) IN
          /\ validate_video_url(url, allowed_domains).ok
          /\ d.ok
          /\ strategy' = d.cls
          /\ pc' = EntryOf(d.cls)
    /\ attempt' = 0
    /\ exc' = ""
    /\ session_proxy' = <<>>
    /\ returned' = <<>>
    /\ raised' = <<>>
    /\ response' = <<>>
    /\ errs' = <<>>
    /\ waits' = <<>>
    /\ metaCalls' = 0
    /\ altCalls' = 0
    /\ altErr' = <<>>
    /\ wproxy' = <<>>
    /\ selCalls' = 0
    /\ selRun' = <<>>
    /\ altRun' = <<>>
    /\ events' = <<>>
    /\ WinReset(current_index)
    /\ nextRet' = <<>>
    /\ nextRaised' = FALSE
    /\ lastOp' = "fetch"
    /\ evictArg' = <<>>
    /\ dupKinds' = {}
    /\ UNCHANGED <<poolVars, concVars, raceVars, cfgVars, mediaVars, idVars,
                   throttleVars, probeVars, infoVars>>

\* the try body of one loop iteration
AttemptTry ==
    /\ pc = "try"
    /\ attempt < max_retries
    /\ \E wp \in get_working_proxy(proxies, webshare) :
          /\ wproxy' = wp
          /\ session_proxy' = IF wp # <<>> THEN wp ELSE session_proxy
    /\ metaCalls' = metaCalls + 1
    /\ lastOp' = "working"
    /\ evictArg' = <<>>
    /\ dupKinds' = {}
    /\ \/ \E sz \in PayloadSizes :
             /\ returned' = <<PrimaryPayload(sz)>>
             /\ events' = events \o <<"attempt", "ok">>
             /\ pc' = "done"
             /\ UNCHANGED <<exc, errs>>
       \/ \E k \in ErrKinds :
             /\ exc' = k
             /\ errs' = Append(errs, k)
             /\ events' = events \o <<"attempt", "failed">>
             /\ pc' = IF IsConnectionException(k) THEN "except_conn" ELSE "except"
             /\ UNCHANGED returned
    /\ UNCHANGED <<strategy, selCalls, selRun, altRun, poolVars, attempt,
                   raised, response, waits, altCalls, altErr, nextVars,
                   winVars, concVars, raceVars, cfgVars, mediaVars, idVars,
                   throttleVars, probeVars, infoVars>>

\* except instaloader.exceptions.ConnectionException as e
ExceptConnection ==
    /\ pc = "except_conn"
    /\ \/ /\ HasRetriesLeft(attempt)
          /\ waits' = Append(waits, ConnWait(attempt))
          /\ events' = events \o <<"wait", "refresh">>
          /\ \E rs \in SourceRuns :
                /\ proxies' = fetch_proxies(proxies, rs)
                /\ dupKinds' = DupKinds(proxies, rs)
          /\ lastOp' = "refresh"
          /\ evictArg' = <<>>
          /\ attempt' = attempt + 1
          /\ pc' = "try"
          /\ UNCHANGED raised
       \/ /\ ~HasRetriesLeft(attempt)
          /\ raised' = <<BlockingError>>
          /\ pc' = "done"
          /\ UNCHANGED <<waits, events, proxies, attempt, opVars>>
    /\ UNCHANGED <<strategy, selCalls, selRun, altRun, current_index, webshare,
                   exc, session_proxy, returned, response, errs, metaCalls,
                   altCalls, altErr, wproxy, nextVars, winVars, concVars,
                   raceVars, cfgVars, mediaVars, idVars, throttleVars,
                   probeVars, infoVars>>

\* except Exception as e
ExceptGeneric ==
    /\ pc = "except"
    /\ \/ /\ HasRetriesLeft(attempt)
          /\ waits' = Append(waits, GenericWait(attempt))
          /\ events' = Append(events, "wait")
          /\ attempt' = attempt + 1
          /\ pc' = "try"
       \/ /\ ~HasRetriesLeft(attempt)
          /\ pc' = "alt"
          /\ UNCHANGED <<waits, events, attempt>>
    /\ UNCHANGED <<strategy, selCalls, selRun, altRun, poolVars, exc,
                   session_proxy, returned, raised, response, errs, metaCalls,
                   altCalls, altErr, wproxy, nextVars, winVars, concVars,
                   raceVars, cfgVars, mediaVars, idVars, throttleVars,
                   probeVars, infoVars, opVars>>

\* the final fallback inside except Exception: one call of the alternate strategy
AltFallback ==
    /\ pc = "alt"
    /\ altCalls' = altCalls + 1
    /\ \E key \in BOOLEAN : \E r \in AltResults(key) :
          /\ altRun' = <<r>>
          /\ events' = Append(events, "alt")
          /\ IF r.ok
             THEN /\ returned' = <<AltPayload(r.size_mb)>>
                  /\ UNCHANGED <<raised, altErr>>
             ELSE /\ raised' = <<FallbackError(exc, r.err)>>
                  /\ altErr' = <<r.err>>
                  /\ UNCHANGED returned
    /\ pc' = "done"
    /\ UNCHANGED <<strategy, selCalls, selRun, wproxy, poolVars, attempt, exc,
                   session_proxy, response, errs, waits, metaCalls, nextVars,
                   winVars, concVars, raceVars, cfgVars, mediaVars, idVars,
                   throttleVars, probeVars, infoVars, opVars>>

\* VideoDownload.post after get_video_stream returned or raised
post_response(ret, rsd) ==
    IF ret # <<>>
    THEN IF ret[1].size_mb > MAX_DOWNLOAD_SIZE_MB
         THEN [status |-> 400, body |-> "File size exceeds limit"]
         ELSE [status |-> 200, body |-> ret[1].filename]
    ELSE [status |-> 404, body |-> rsd[1].msg]

Respond ==
    /\ pc = "done"
    /\ response' = <<post_response(returned, raised)>>
    /\ pc' = "responded"
    /\ UNCHANGED <<strategy, poolVars, attempt, exc, session_proxy, returned,
                   raised, fetchHist, nextVars, winVars, concVars, raceVars,
                   cfgVars, mediaVars, idVars, throttleVars, probeVars,
                   infoVars, opVars>>

\* the request is over: the downloader instance and the response are dropped
Finish ==
    /\ pc \in {"responded", "rejected"}
    /\ pc' = "idle"
    /\ attempt' = 0
    /\ exc' = ""
    /\ session_proxy' = <<>>
    /\ returned' = <<>>
    /\ raised' = <<>>
    /\ response' = <<>>
    /\ errs' = <<>>
    /\ waits' = <<>>
    /\ metaCalls' = 0
    /\ altCalls' = 0
    /\ altErr' = <<>>
    /\ wproxy' = <<>>
    /\ strategy' = ""
    /\ selCalls' = 0
    /\ selRun' = <<>>
    /\ altRun' = <<>>
    /\ events' = <<>>
    /\ UNCHANGED <<poolVars, nextVars, winVars, concVars, raceVars, cfgVars,
                   mediaVars, idVars, throttleVars, probeVars, infoVars,
                   opVars>>

FetchStep ==
    \/ AttemptTry \/ ExceptConnection \/ ExceptGeneric \/ AltFallback
    \/ TikTokFetch \/ AltFetch \/ Respond \/ Finish

Next ==
    \/ StartFetch
    \/ RejectRequest
    \/ TikTokFetch
    \/ AltFetch
    \/ AttemptTry
    \/ ExceptConnection
    \/ ExceptGeneric
    \/ AltFallback
    \/ Respond
    \/ Finish

Spec == Init /\ [][Next]_vars

FairSpec == Spec /\ WF_vars(FetchStep)

TrustSpec == TrustInit /\ [][Next]_vars

PoolNext ==
    \/ Refresh
    \/ Next_
    \/ Evict

PoolSpec == Init /\ [][PoolNext]_vars


\* --------------------------- get_proxy line by line, two threads (ConcSpec)

AllIdle == \A t \in Threads : tpc[t] = "idle"

\* a thread enters get_proxy
TCall(t) ==
    /\ tpc[t] = "idle"
    /\ tpc' = [tpc EXCEPT ![t] = "l133"]
    /\ UNCHANGED <<poolVars, fetchVars, fetchHist, nextVars, winVars, opVars,
                   raceVars, cfgVars, mediaVars, idVars, throttleVars,
                   probeVars, infoVars, tproxy, ttmp, roundStart>>

\* if not self.proxies: return None
TCheck(t) ==
    /\ tpc[t] = "l133"
    /\ tpc' = [tpc EXCEPT ![t] = IF proxies = <<>> THEN "ret" ELSE "l136"]
    /\ UNCHANGED <<poolVars, fetchVars, fetchHist, nextVars, winVars, opVars,
                   raceVars, cfgVars, mediaVars, idVars, throttleVars,
                   probeVars, infoVars, tproxy, ttmp, roundStart>>

\* proxy = self.proxies[self.current_index]
TRead(t) ==
    /\ tpc[t] = "l136"
    /\ \/ /\ current_index < Len(proxies)
          /\ tproxy' = [tproxy EXCEPT ![t] = <<proxies[current_index + 1]>>]
          /\ tpc' = [tpc EXCEPT ![t] = "l137"]
       \/ /\ current_index >= Len(proxies)
          /\ tpc' = [tpc EXCEPT ![t] = "IndexError"]
          /\ UNCHANGED tproxy
    /\ UNCHANGED <<poolVars, fetchVars, fetchHist, nextVars, winVars, opVars,
                   raceVars, cfgVars, mediaVars, idVars, throttleVars,
                   probeVars, infoVars, ttmp, roundStart>>

\* evaluate (self.current_index + 1) % len(self.proxies)
TLoad(t) ==
    /\ tpc[t] = "l137"
    /\ ttmp' = [ttmp EXCEPT ![t] = (current_index + 1) % Len(proxies)]
    /\ tpc' = [tpc EXCEPT ![t] = "l137_store"]
    /\ UNCHANGED <<poolVars, fetchVars, fetchHist, nextVars, winVars, opVars,
                   raceVars, cfgVars, mediaVars, idVars, throttleVars,
                   probeVars, infoVars, tproxy, roundStart>>

\* self.current_index = <value>; return proxy
TStore(t) ==
    /\ tpc[t] = "l137_store"
    /\ current_index' = ttmp[t]
    /\ tpc' = [tpc EXCEPT ![t] = "ret"]
    /\ UNCHANGED <<proxies, webshare, fetchVars, fetchHist, nextVars, winVars,
                   opVars, raceVars, cfgVars, mediaVars, idVars, throttleVars,
                   probeVars, infoVars, tproxy, ttmp, roundStart>>

\* both calls are over; the threads are free to call again
RoundEnd ==
    /\ \A t \in Threads : tpc[t] \in {"ret", "IndexError"}
    /\ tpc' = [t \in Threads |-> "idle"]
    /\ tproxy' = [t \in Threads |-> <<>>]
    /\ ttmp' = [t \in Threads |-> 0]
    /\ roundStart' = current_index
    /\ UNCHANGED <<poolVars, fetchVars, fetchHist, nextVars, winVars, opVars,
                   raceVars, cfgVars, mediaVars, idVars, throttleVars,
                   probeVars, infoVars>>

\* refresh and evict run only while no get_proxy call is in progress
QuietRefresh == AllIdle /\ Refresh
QuietEvict == AllIdle /\ Evict

ConcNext ==
    \/ QuietRefresh
    \/ QuietEvict
    \/ RoundEnd
    \/ \E t \in Threads : TCall(t)
    \/ \E t \in Threads : TCheck(t)
    \/ \E t \in Threads : TRead(t)
    \/ \E t \in Threads : TLoad(t)
    \/ \E t \in Threads : TStore(t)

ConcSpec == Init /\ [][ConcNext]_vars


\* ------- fetch_proxies line by line against other threads' calls (RaceSpec)

FetchRunning == fpc \in {"src", "dedup", "assign"}

\* a thread enters fetch_proxies
FCall ==
    /\ fpc = "idle"
    /\ fpc' = "src"
    /\ fsrc' = 1
    /\ fstart' = proxies
    /\ UNCHANGED <<fresults, poolVars, fetchVars, fetchHist, nextVars, winVars,
                   concVars, opVars, cfgVars, mediaVars, idVars, throttleVars,
                   probeVars, infoVars, fgot, fi, fseen, funique, ffetched,
                   rpc, rret, sawMerged, evicted>>

\* one iteration of "for source in sources": the extend is done on the shared list
FSource ==
    /\ fpc = "src"
    /\ \E r \in SourceResults(MaxFetched - fgot) :
          /\ proxies' = ExtendFrom(proxies, r)
          /\ fgot' = fgot + Len(Got(r))
          /\ ffetched' = ffetched \cup Elems(Got(r))
          /\ fresults' = Append(fresults, r.ok)
    /\ \/ /\ fsrc < NumSources
          /\ fsrc' = fsrc + 1
          /\ UNCHANGED fpc
       \/ /\ fsrc = NumSources
          /\ fsrc' = 0
          /\ fpc' = "dedup"
    /\ UNCHANGED <<current_index, webshare, fetchVars, fetchHist, nextVars,
                   winVars, concVars, opVars, cfgVars, mediaVars, idVars,
                   throttleVars, probeVars, infoVars, fi, fseen, funique,
                   fstart, rpc, rret, sawMerged, evicted>>

\* one step of "for proxy in self.proxies": the list iterator reads the shared list
FDedup ==
    /\ fpc = "dedup"
    /\ \/ /\ fi < Len(proxies)
          /\ LET proxy == proxies[fi + 1] IN
                IF proxy.http \notin fseen
                THEN /\ fseen' = fseen \cup {proxy.http}
                     /\ funique' = Append(funique, proxy)
                ELSE UNCHANGED <<fseen, funique>>
          /\ fi' = fi + 1
          /\ UNCHANGED fpc
       \/ /\ fi >= Len(proxies)
          /\ fpc' = "assign"
          /\ UNCHANGED <<fi, fseen, funique>>
    /\ UNCHANGED <<fresults, poolVars, fetchVars, fetchHist, nextVars, winVars,
                   concVars, opVars, cfgVars, mediaVars, idVars, throttleVars,
                   probeVars, infoVars, fsrc, fgot, fstart, ffetched, rpc,
                   rret, sawMerged, evicted>>

\* self.proxies = unique_proxies
FAssign ==
    /\ fpc = "assign"
    /\ proxies' = funique
    /\ fpc' = "ret"
    /\ UNCHANGED <<fresults, current_index, webshare, fetchVars, fetchHist,
                   nextVars, winVars, concVars, opVars, cfgVars, mediaVars,
                   idVars, throttleVars, probeVars, infoVars, fsrc, fgot, fi,
                   fseen, funique, fstart, ffetched, rpc, rret, sawMerged,
                   evicted>>

\* another thread calls remove_proxy(p): list.remove is one step
REvict ==
    /\ \E p \in Endpoints :
          /\ proxies' = remove_proxy(proxies, p)
          /\ evicted' = IF fpc # "idle" THEN evicted \cup {p} ELSE evicted
    /\ UNCHANGED <<fresults, current_index, webshare, fetchVars, fetchHist,
                   nextVars, winVars, concVars, opVars, cfgVars, mediaVars,
                   idVars, throttleVars, probeVars, infoVars, fpc, fsrc, fgot,
                   fi, fseen, funique, fstart, ffetched, rpc, rret, sawMerged>>

\* a thread enters get_random_proxy
RCall ==
    /\ rpc = "idle"
    /\ rpc' = "l142"
    /\ UNCHANGED <<fresults, poolVars, fetchVars, fetchHist, nextVars, winVars,
                   concVars, opVars, cfgVars, mediaVars, idVars, throttleVars,
                   probeVars, infoVars, fpc, fsrc, fgot, fi, fseen, funique,
                   fstart, ffetched, rret, sawMerged, evicted>>

\* if not self.proxies: return None
RCheck ==
    /\ rpc = "l142"
    /\ rpc' = IF proxies = <<>> THEN "ret" ELSE "l144"
    /\ UNCHANGED <<fresults, poolVars, fetchVars, fetchHist, nextVars, winVars,
                   concVars, opVars, cfgVars, mediaVars, idVars, throttleVars,
                   probeVars, infoVars, fpc, fsrc, fgot, fi, fseen, funique,
                   fstart, ffetched, rret, sawMerged, evicted>>

\* return random.choice(self.proxies)
RChoice ==
    /\ rpc = "l144"
    /\ \/ /\ proxies # <<>>
          /\ \E i \in 1..Len(proxies) : rret' = <<proxies[i]>>
          /\ rpc' = "ret"
          /\ sawMerged' = (sawMerged \/ (/\ FetchRunning
                                         /\ \A i, j \in 1..Len(fstart) :
                                               i # j => fstart[i] # fstart[j]
                                         /\ \E i, j \in 1..Len(proxies) :
                                               i # j /\ proxies[i] = proxies[j]))
       \/ /\ proxies = <<>>
          /\ rpc' = "IndexError"
          /\ UNCHANGED <<rret, sawMerged>>
    /\ UNCHANGED <<fresults, poolVars, fetchVars, fetchHist, nextVars, winVars,
                   concVars, opVars, cfgVars, mediaVars, idVars, throttleVars,
                   probeVars, infoVars, fpc, fsrc, fgot, fi, fseen, funique,
                   fstart, ffetched, evicted>>

\* the calls are over; the threads are free to call again
RaceEnd ==
    /\ fpc \in {"idle", "ret"}
    /\ rpc \in {"idle", "ret", "IndexError"}
    /\ fpc # "idle" \/ rpc # "idle"
    /\ fpc' = "idle"
    /\ fsrc' = 0
    /\ fgot' = 0
    /\ fi' = 0
    /\ fseen' = {}
    /\ funique' = <<>>
    /\ fstart' = <<>>
    /\ ffetched' = {}
    /\ fresults' = <<>>
    /\ rpc' = "idle"
    /\ rret' = <<>>
    /\ sawMerged' = FALSE
    /\ evicted' = {}
    /\ UNCHANGED <<poolVars, fetchVars, fetchHist, nextVars, winVars, concVars,
                   opVars, cfgVars, mediaVars, idVars, throttleVars, probeVars,
                   infoVars>>

RaceNext ==
    \/ FCall
    \/ FSource
    \/ FDedup
    \/ FAssign
    \/ REvict
    \/ RCall
    \/ RCheck
    \/ RChoice
    \/ RaceEnd

RaceSpec == Init /\ [][RaceNext]_vars

SoloNext ==
    \/ FCall
    \/ FSource
    \/ FDedup
    \/ FAssign
    \/ RaceEnd

SoloSpec == Init /\ [][SoloNext]_vars

\* proxy_manager.get_proxy(), called while no thread is inside fetch_proxies;
\* the histories of PoolSpec are not kept here
SeqNext ==
    /\ fpc = "idle"
    /\ current_index' = get_proxy(proxies, current_index).idx
    /\ UNCHANGED <<proxies, webshare, fetchVars, fetchHist, nextVars, winVars,
                   concVars, opVars, raceVars, cfgVars, mediaVars, idVars,
                   throttleVars, probeVars, infoVars>>

\* proxy_manager.remove_proxy(p), called while no thread is inside
\* fetch_proxies
SeqEvict ==
    /\ fpc = "idle"
    /\ \E p \in Endpoints : proxies' = remove_proxy(proxies, p)
    /\ UNCHANGED <<current_index, webshare, fetchVars, fetchHist, nextVars,
                   winVars, concVars, opVars, raceVars, cfgVars, mediaVars,
                   idVars, throttleVars, probeVars, infoVars>>

FrameNext ==
    \/ FCall
    \/ FSource
    \/ FDedup
    \/ FAssign
    \/ RaceEnd
    \/ SeqNext
    \/ SeqEvict

FrameSpec == Init /\ [][FrameNext]_vars


\* --------------------------------------------- VideoInfo.post (InfoSpec)

\* what Post.from_shortcode and post.is_video come to
MetaReplies == {"video"} \cup ErrKinds

DirectUrl == "https://cdn/video.mp4"

\* InstagramDownloader.get_video_url
instagram_get_video_url(reply) ==
    CASE reply = "video" ->
            [raised |-> "", direct_url |-> DirectUrl, video_id |-> "shortcode"]
      [] reply = "not_a_video" ->
            [raised |-> "ValueError", direct_url |-> "", video_id |-> ""]
      [] OTHER ->
            [raised |-> "Exception", direct_url |-> "", video_id |-> ""]

\* InstagramAlternativeDownloader.get_video_url
alt_get_video_url(reply) ==
    IF reply = "200_video"
    THEN [raised |-> "", direct_url |-> DirectUrl, video_id |-> "shortcode"]
    ELSE [raised |-> "", direct_url |-> "", video_id |-> "shortcode"]

\* TikTokDownloader.get_video_url
tiktok_get_video_url(reply) ==
    IF reply = "code_0"
    THEN [raised |-> "", direct_url |-> DirectUrl, video_id |-> "video_id"]
    ELSE [raised |-> "ValueError", direct_url |-> "", video_id |-> ""]

\* downloader.get_video_url(video_url): every outcome of the selected class
get_video_url(cls) ==
    CASE cls = "InstagramDownloader" ->
            {instagram_get_video_url(reply) : reply \in MetaReplies}
      [] cls = "InstagramAlternativeDownloader" ->
            {alt_get_video_url(reply) : reply \in AltApiReplies}
      [] cls = "TikTokDownloader" ->
            {tiktok_get_video_url(reply) : reply \in TikTokApiReplies}

\* the service started with an empty pool, under any configuration
InfoInit ==
    /\ platforms \in PlatformLists
    /\ use_alt \in BOOLEAN
    /\ allowed_domains \in AllowedDomainSets
    /\ proxies = <<>>
    /\ webshare = FALSE
    /\ trusted = {}
    /\ lastOp = "refresh"
    /\ dupKinds = {}
    /\ Quiet

\* VideoInfo.post up to validate_video_url
InfoReceive ==
    /\ ipc = "idle"
    /\ \E url \in RequestUrls :
          LET v == validate_video_url(url, allowed_domains) IN
          /\ req_url' = <<url>>
          /\ IF v.ok
             THEN /\ ipc' = "validated"
                  /\ UNCHANGED info_response
             ELSE /\ ipc' = "responded"
                  /\ info_response' = <<[status |-> 400, body |-> v.msg]>>
    /\ UNCHANGED <<poolVars, fetchVars, fetchHist, nextVars, winVars, concVars,
                   opVars, raceVars, cfgVars, mediaVars, idVars, throttleVars,
                   probeVars, selected, info_ret, info_raised>>

\* downloader = DownloaderFactory.get_downloader(video_url)
InfoSelect ==
    /\ ipc = "validated"
    /\ LET d == get_downloader(platforms, use_alt, req_url[1]) IN
          IF d.ok
          THEN /\ selected' = <<d.cls>>
               /\ ipc' = "selected"
               /\ UNCHANGED info_raised
          ELSE /\ info_raised' = "ValueError"
               /\ ipc' = "unsupported"
               /\ UNCHANGED selected
    /\ UNCHANGED <<poolVars, fetchVars, fetchHist, nextVars, winVars, concVars,
                   opVars, raceVars, cfgVars, mediaVars, idVars, throttleVars,
                   probeVars, req_url, info_ret, info_response>>

\* direct_url, video_id = downloader.get_video_url(video_url)
InfoResolve ==
    /\ ipc = "selected"
    /\ \E r \in get_video_url(selected[1]) :
          IF r.raised = ""
          THEN /\ info_ret' = <<[direct_url |-> r.direct_url, video_id |-> r.video_id]>>
               /\ UNCHANGED info_raised
          ELSE /\ info_raised' = r.raised
               /\ UNCHANGED info_ret
    /\ ipc' = "resolved"
    /\ UNCHANGED <<poolVars, fetchVars, fetchHist, nextVars, winVars, concVars,
                   opVars, raceVars, cfgVars, mediaVars, idVars, throttleVars,
                   probeVars, req_url, selected, info_response>>

\* the return of line 136 and the except clauses of VideoInfo.post
info_response_of(ret, rsd) ==
    IF ret # <<>> THEN [status |-> 200, body |-> ret[1].direct_url]
    ELSE IF rsd = "ValueError" THEN [status |-> 400, body |-> "error"]
         ELSE [status |-> 404, body |-> "Failed to get video info"]

InfoRespond ==
    /\ ipc \in {"unsupported", "resolved"}
    /\ info_response' = <<info_response_of(info_ret, info_raised)>>
    /\ ipc' = "responded"
    /\ UNCHANGED <<poolVars, fetchVars, fetchHist, nextVars, winVars, concVars,
                   opVars, raceVars, cfgVars, mediaVars, idVars, throttleVars,
                   probeVars, req_url, selected, info_ret, info_raised>>

\* the request is over
InfoFinish ==
    /\ ipc = "responded"
    /\ ipc' = "idle"
    /\ req_url' = <<>>
    /\ selected' = <<>>
    /\ info_ret' = <<>>
    /\ info_raised' = ""
    /\ info_response' = <<>>
    /\ UNCHANGED <<poolVars, fetchVars, fetchHist, nextVars, winVars, concVars,
                   opVars, raceVars, cfgVars, mediaVars, idVars, throttleVars,
                   probeVars>>

InfoNext ==
    \/ InfoReceive
    \/ InfoSelect
    \/ InfoResolve
    \/ InfoRespond
    \/ InfoFinish

InfoSpec == InfoInit /\ [][InfoNext]_vars


\* ------------------------------ get_working_proxy line by line (ProbeSpec)

\* what the request of test_proxy comes to
ProbeReplies == {"200", "other_status", "exception"}

\* ProxyManager.test_proxy
test_proxy(reply) == reply = "200"

\* faulty variant: as many probes as the pool has entries
max_tests_uncapped(n) == n
\* max_tests = min(10, len(self.proxies))
max_tests(n) == IF n < MaxProbes THEN n ELSE MaxProbes

\* pools of distinct endpoints, large enough to pass the cap on the probes
ProbePools == {[i \in 1..n |-> Endpoint(UrlNames[i])] : n \in 0..MaxPool}

\* the service runs with one of these pools, scraped or loaded from the
\* trusted list
ProbeInit ==
    /\ proxies \in ProbePools
    /\ webshare \in BOOLEAN
    /\ trusted = IF webshare THEN Elems(proxies) ELSE {}
    /\ lastOp = IF webshare THEN "load" ELSE "refresh"
    /\ dupKinds = {}
    /\ platforms = DefaultPlatforms
    /\ use_alt = FALSE
    /\ allowed_domains = DefaultAllowedDomains
    /\ Quiet

\* a caller enters get_working_proxy
WCall ==
    /\ wpc = "idle"
    /\ wpc' = "l156"
    /\ UNCHANGED <<poolVars, fetchVars, fetchHist, nextVars, winVars, concVars,
                   opVars, raceVars, cfgVars, mediaVars, idVars, throttleVars,
                   infoVars, tested, wmax, wret, passes, probed>>

\* if not self.proxies: return None
WEmpty ==
    /\ wpc = "l156"
    /\ wpc' = IF proxies = <<>> THEN "ret" ELSE "l160"
    /\ UNCHANGED <<poolVars, fetchVars, fetchHist, nextVars, winVars, concVars,
                   opVars, raceVars, cfgVars, mediaVars, idVars, throttleVars,
                   infoVars, tested, wmax, wret, passes, probed>>

\* if os.getenv("WEBSHARE_PROXIES"): return self.get_random_proxy();
\* otherwise tested = 0 and max_tests is computed
WTrusted ==
    /\ wpc = "l160"
    /\ \/ /\ webshare
          /\ \E proxy \in get_random_proxy(proxies) : wret' = proxy
          /\ wpc' = "ret"
          /\ UNCHANGED wmax
       \/ /\ ~webshare
          /\ wmax' = max_tests(Len(proxies))
          /\ wpc' = "l166"
          /\ UNCHANGED wret
    /\ UNCHANGED <<poolVars, fetchVars, fetchHist, nextVars, winVars, concVars,
                   opVars, raceVars, cfgVars, mediaVars, idVars, throttleVars,
                   infoVars, tested, passes, probed>>

\* one iteration of "for _ in range(max_tests)"
WProbe ==
    /\ wpc = "l166"
    /\ tested < wmax
    /\ \E proxy \in get_random_proxy(proxies), reply \in ProbeReplies :
          /\ probed' = proxy
          /\ IF test_proxy(reply)
             THEN /\ passes' = passes + 1
                  /\ wret' = proxy
                  /\ wpc' = "ret"
             ELSE UNCHANGED <<passes, wret, wpc>>
    /\ tested' = tested + 1
    /\ UNCHANGED <<poolVars, fetchVars, fetchHist, nextVars, winVars, concVars,
                   opVars, raceVars, cfgVars, mediaVars, idVars, throttleVars,
                   infoVars, wmax>>

\* the loop is exhausted: return None
WGiveUp ==
    /\ wpc = "l166"
    /\ tested >= wmax
    /\ wret' = <<>>
    /\ wpc' = "ret"
    /\ UNCHANGED <<poolVars, fetchVars, fetchHist, nextVars, winVars, concVars,
                   opVars, raceVars, cfgVars, mediaVars, idVars, throttleVars,
                   infoVars, tested, wmax, passes, probed>>

\* the caller has the result and may call again
WReturn ==
    /\ wpc = "ret"
    /\ wpc' = "idle"
    /\ tested' = 0
    /\ wmax' = 0
    /\ wret' = <<>>
    /\ passes' = 0
    /\ probed' = <<>>
    /\ UNCHANGED <<poolVars, fetchVars, fetchHist, nextVars, winVars, concVars,
                   opVars, raceVars, cfgVars, mediaVars, idVars, throttleVars,
                   infoVars>>

ProbeNext ==
    \/ WCall
    \/ WEmpty
    \/ WTrusted
    \/ WProbe
    \/ WGiveUp
    \/ WReturn

ProbeSpec == ProbeInit /\ [][ProbeNext]_vars

\* ------------------ Instagram metadata calls on the clock (ThrottleSpec)

\* what Post.from_shortcode comes to
MetaOutcomes == {"ok", "connection", "other"}

\* sleep_time of _rate_limit, 0 when it does not sleep
SleepTime(current_time, last) ==
    IF current_time - last < min_request_interval
    THEN min_request_interval - (current_time - last)
    ELSE 0

\* the service runs the standard Instagram downloader, no proxy configured
ThrottleInit ==
    /\ proxies = <<>>
    /\ webshare = FALSE
    /\ trusted = {}
    /\ lastOp = "refresh"
    /\ dupKinds = {}
    /\ platforms = DefaultPlatforms
    /\ use_alt = FALSE
    /\ allowed_domains = DefaultAllowedDomains
    /\ Quiet

\* DownloaderFactory.get_downloader returns InstagramDownloader(), a new
\* object whose last_request_time is 0; the handler calls get_video_stream
\* or get_video_url on it
KRequest ==
    /\ kpc = "idle"
    /\ \E url \in RequestUrls :
          LET d == get_downloader(platforms, use_alt, url) IN
          /\ validate_video_url(url, allowed_domains).ok
          /\ d.ok
          /\ d.cls = "InstagramDownloader"
    /\ kkind' \in {"fetch", "resolve"}
    /\ last_request_time' = 0
    /\ kattempt' = 0
    /\ kexc' = ""
    /\ kpc' = "rate_limit"
    /\ UNCHANGED <<poolVars, fetchVars, fetchHist, nextVars, winVars, concVars,
                   opVars, raceVars, cfgVars, mediaVars, idVars, infoVars,
                   probeVars, now, rateLimited, metaAt, metaGap,
                   metaThrottled>>

\* self._rate_limit()
KRateLimit ==
    /\ kpc = "rate_limit"
    /\ LET sleep_time == SleepTime(now, last_request_time) IN
          /\ now + sleep_time <= MaxClock
          /\ now' = now + sleep_time
          /\ last_request_time' = now + sleep_time
    /\ rateLimited' = TRUE
    /\ kpc' = "meta"
    /\ UNCHANGED <<poolVars, fetchVars, fetchHist, nextVars, winVars, concVars,
                   opVars, raceVars, cfgVars, mediaVars, idVars, infoVars,
                   probeVars, kkind, kattempt, kexc, metaAt, metaGap,
                   metaThrottled>>

\* instaloader.Post.from_shortcode(self.loader.context, shortcode), in
\* get_video_url or in one iteration of the loop of get_video_stream
KMeta ==
    /\ kpc = "meta"
    /\ metaGap' = IF metaAt = <<>> THEN <<>> ELSE <<now - metaAt[1]>>
    /\ metaThrottled' = rateLimited
    /\ metaAt' = <<now>>
    /\ rateLimited' = FALSE
    /\ \E o \in MetaOutcomes :
          /\ kexc' = IF o = "ok" THEN "" ELSE o
          /\ kpc' = IF o = "ok" \/ kkind = "resolve" \/ ~HasRetriesLeft(kattempt)
                    THEN "idle" ELSE "except"
    /\ UNCHANGED <<poolVars, fetchVars, fetchHist, nextVars, winVars, concVars,
                   opVars, raceVars, cfgVars, mediaVars, idVars, infoVars,
                   probeVars, now, kkind, last_request_time, kattempt>>

\* the except clauses with attempts left: time.sleep(wait_time), then the
\* next iteration
KBackoff ==
    /\ kpc = "except"
    /\ LET wait_time == IF kexc = "connection" THEN ConnWait(kattempt)
                        ELSE GenericWait(kattempt) IN
          /\ now + wait_time <= MaxClock
          /\ now' = now + wait_time
    /\ kattempt' = kattempt + 1
    /\ kexc' = ""
    /\ kpc' = "meta"
    /\ UNCHANGED <<poolVars, fetchVars, fetchHist, nextVars, winVars, concVars,
                   opVars, raceVars, cfgVars, mediaVars, idVars, infoVars,
                   probeVars, kkind, last_request_time, rateLimited, metaAt,
                   metaGap, metaThrottled>>

\* a second passes with no request being handled
KTick ==
    /\ kpc = "idle"
    /\ now < MaxClock
    /\ now' = now + 1
    /\ UNCHANGED <<poolVars, fetchVars, fetchHist, nextVars, winVars, concVars,
                   opVars, raceVars, cfgVars, mediaVars, idVars, infoVars,
                   probeVars, kpc, kkind, last_request_time, kattempt, kexc,
                   rateLimited, metaAt, metaGap, metaThrottled>>

ThrottleNext ==
    \/ KRequest
    \/ KRateLimit
    \/ KMeta
    \/ KBackoff
    \/ KTick

ThrottleSpec == ThrottleInit /\ [][ThrottleNext]_vars

\* --------------------------- extract_video_id and the names of a payload
\* (IdSpec)

\* The text of a URL is a list of tokens: "/" and "?" stand for themselves,
\* every other token is a maximal run of other characters.
Hosts == {"www.instagram.com", "www.tiktok.com", "vm.tiktok.com"}
PathWords == {"reel", "video", "ABC123", "998877", "@user"}
Queries == {<<>>, <<"?", "utm=1">>, <<"?", "u=", "/", "video", "/", "456">>}
VideoUrls ==
    [host : Hosts, segs : SeqsUpTo(PathWords, MaxSegs), slash : BOOLEAN,
     query : Queries]

RECURSIVE PathText(_)
PathText(segs) ==
    IF segs = <<>> THEN <<>> ELSE <<"/", Head(segs)>> \o PathText(Tail(segs))

UrlText(u) ==
    <<"https:", "/", "/", u.host>> \o PathText(u.segs)
        \o (IF u.slash THEN <<"/">> ELSE <<>>) \o u.query

\* the longest prefix of a word that [A-Za-z0-9_-]+ matches, "" if none
WordChars(w) ==
    CASE w \in {"/", "?", "@user"} -> ""
      [] w = "utm=1" -> "utm"
      [] w = "u=" -> "u"
      [] w = "https:" -> "https"
      [] w = "vm.tiktok.com" -> "vm"
      [] w \in {"www.instagram.com", "www.tiktok.com"} -> "www"
      [] OTHER -> w

\* the longest prefix of a word that \d+ matches, "" if none
Digits(w) == IF w \in {"998877", "456"} THEN w ELSE ""

Least(S) == CHOOSE x \in S : \A y \in S : x <= y

\* str.split("?")[0]
BeforeQuery(t) ==
    LET qs == {i \in 1..Len(t) : t[i] = "?"} IN
    IF qs = {} THEN t ELSE SubSeq(t, 1, Least(qs) - 1)

\* str.rstrip("/")
RECURSIVE RStripSlash(_)
RStripSlash(t) ==
    IF t # <<>> /\ t[Len(t)] = "/" THEN RStripSlash(SubSeq(t, 1, Len(t) - 1))
    ELSE t

\* str.split("/"): the list of parts, cur being the part read so far
RECURSIVE SplitSlash(_, _, _)
SplitSlash(t, cur, acc) ==
    IF t = <<>> THEN Append(acc, cur)
    ELSE IF Head(t) = "/" THEN SplitSlash(Tail(t), <<>>, Append(acc, cur))
         ELSE SplitSlash(Tail(t), Append(cur, Head(t)), acc)

\* positions where /(?:reel|p|tv)/([A-Za-z0-9_-]+) matches
ShortcodeMatches(t) ==
    {i \in 1..(Len(t) - 3) :
        /\ t[i] = "/"
        /\ t[i + 1] \in {"reel", "p", "tv"}
        /\ t[i + 2] = "/"
        /\ WordChars(t[i + 3]) # ""}

\* positions where /video/(\d+) matches
VideoMatches(t) ==
    {i \in 1..(Len(t) - 3) :
        /\ t[i] = "/"
        /\ t[i + 1] = "video"
        /\ t[i + 2] = "/"
        /\ Digits(t[i + 3]) # ""}

\* InstagramDownloader.extract_video_id
instagram_extract_video_id(url) ==
    LET u == RStripSlash(BeforeQuery(url))
        m == ShortcodeMatches(u)
        url_parts == SplitSlash(u, <<>>, <<>>)
    IN  IF m # {} THEN <<WordChars(u[Least(m) + 3])>>
        ELSE IF url_parts[Len(url_parts)] # <<>>
             THEN url_parts[Len(url_parts)]
             ELSE url_parts[Len(url_parts) - 1]

\* faulty variant: the query string is not stripped
alt_extract_video_id_query(url) ==
    LET u == RStripSlash(url)
        m == ShortcodeMatches(u)
        url_parts == SplitSlash(u, <<>>, <<>>)
    IN  IF m # {} THEN <<WordChars(u[Least(m) + 3])>>
        ELSE IF url_parts[Len(url_parts)] # <<>>
             THEN url_parts[Len(url_parts)]
             ELSE url_parts[Len(url_parts) - 1]
\* InstagramAlternativeDownloader.extract_video_id
alt_extract_video_id(url) ==
    LET u == RStripSlash(BeforeQuery(url))
        m == ShortcodeMatches(u)
        url_parts == SplitSlash(u, <<>>, <<>>)
    IN  IF m # {} THEN <<WordChars(u[Least(m) + 3])>>
        ELSE IF url_parts[Len(url_parts)] # <<>>
             THEN url_parts[Len(url_parts)]
             ELSE url_parts[Len(url_parts) - 1]

\* TikTokDownloader.extract_video_id
tiktok_extract_video_id(url) ==
    LET m == VideoMatches(url)
        url_parts == SplitSlash(url, <<>>, <<>>)
    IN  IF m # {} THEN <<Digits(url[Least(m) + 3])>>
        ELSE BeforeQuery(url_parts[Len(url_parts)])

extract_video_id(cls, url) ==
    CASE cls = "InstagramDownloader" -> instagram_extract_video_id(url)
      [] cls = "InstagramAlternativeDownloader" -> alt_extract_video_id(url)
      [] cls = "TikTokDownloader" -> tiktok_extract_video_id(url)

\* f"instagram_{shortcode}.mp4", f"tiktok_{video_id}.mp4"
Filename(prefix, id) == <<prefix, "_">> \o id \o <<".mp4">>

\* video_id and filename of a get_video_stream call that succeeds
instagram_names(url) ==
    LET shortcode == instagram_extract_video_id(url) IN
    [video_id |-> shortcode, filename |-> Filename("instagram", shortcode)]

alt_names(url) ==
    LET shortcode == alt_extract_video_id(url) IN
    [video_id |-> shortcode, filename |-> Filename("instagram", shortcode)]

tiktok_names(url) ==
    LET video_id == tiktok_extract_video_id(url) IN
    [video_id |-> video_id, filename |-> Filename("tiktok", video_id)]

\* the strategies and who can produce their payload: the strategy itself,
\* or for InstagramDownloader the alternate it falls back to
Strategies ==
    {"InstagramDownloader", "InstagramAlternativeDownloader", "TikTokDownloader"}
Producers(cls) ==
    IF cls = "InstagramDownloader" THEN {"primary", "fallback"} ELSE {"primary"}

stream_names(cls, producer, url) ==
    CASE cls = "TikTokDownloader" -> tiktok_names(url)
      [] cls = "InstagramAlternativeDownloader" -> alt_names(url)
      [] cls = "InstagramDownloader" ->
            IF producer = "fallback" THEN alt_names(url) ELSE instagram_names(url)

\* validate_url of the strategy, on the host of the URL
OfPlatform(cls, u) ==
    IF cls = "TikTokDownloader"
    THEN u.host \in {"www.tiktok.com", "vm.tiktok.com"}
    ELSE u.host = "www.instagram.com"

\* a request with any URL, served by a strategy of its platform
IdInit ==
    /\ proxies = <<>>
    /\ webshare = FALSE
    /\ trusted = {}
    /\ lastOp = "refresh"
    /\ dupKinds = {}
    /\ platforms = DefaultPlatforms
    /\ use_alt = FALSE
    /\ allowed_domains = DefaultAllowedDomains
    /\ Quiet

\* a request arrives and a strategy of its platform is selected
IdRequest ==
    /\ idpc = "idle"
    /\ \E u \in VideoUrls, cls \in Strategies :
          /\ OfPlatform(cls, u)
          /\ id_url' = <<u>>
          /\ id_cls' = cls
    /\ idpc' = "selected"
    /\ UNCHANGED <<poolVars, fetchVars, fetchHist, nextVars, winVars, concVars,
                   opVars, raceVars, cfgVars, mediaVars, infoVars, probeVars,
                   throttleVars, id_out, id_producer, id_names>>

\* self.extract_video_id(url)
IdExtract ==
    /\ idpc = "selected"
    /\ id_out' = <<extract_video_id(id_cls, UrlText(id_url[1]))>>
    /\ idpc' = "extracted"
    /\ UNCHANGED <<poolVars, fetchVars, fetchHist, nextVars, winVars, concVars,
                   opVars, raceVars, cfgVars, mediaVars, infoVars, probeVars,
                   throttleVars, id_url, id_cls, id_producer, id_names>>

\* get_video_stream(url) returns video_data, video_id, filename
IdStream ==
    /\ idpc = "selected"
    /\ \E producer \in Producers(id_cls) :
          /\ id_producer' = producer
          /\ id_names' = <<stream_names(id_cls, producer, UrlText(id_url[1]))>>
    /\ idpc' = "streamed"
    /\ UNCHANGED <<poolVars, fetchVars, fetchHist, nextVars, winVars, concVars,
                   opVars, raceVars, cfgVars, mediaVars, infoVars, probeVars,
                   throttleVars, id_url, id_cls, id_out>>

\* the request is over
IdFinish ==
    /\ idpc \in {"extracted", "streamed"}
    /\ idpc' = "idle"
    /\ id_url' = <<>>
    /\ id_cls' = ""
    /\ id_out' = <<>>
    /\ id_producer' = ""
    /\ id_names' = <<>>
    /\ UNCHANGED <<poolVars, fetchVars, fetchHist, nextVars, winVars, concVars,
                   opVars, raceVars, cfgVars, mediaVars, infoVars, probeVars,
                   throttleVars>>

IdNext ==
    \/ IdRequest
    \/ IdExtract
    \/ IdStream
    \/ IdFinish

IdSpec == IdInit /\ [][IdNext]_vars

\* ------ InstagramDownloader._download_video_with_proxy (MediaSpec)

\* attempts = [("proxy", proxy), ("direct", None)]
attempts(proxy) == <<[type |-> "proxy", proxy |-> proxy],
                     [type |-> "direct", proxy |-> <<>>]>>

\* proxy = proxy_manager.get_random_proxy()
DCall ==
    /\ mpc = "idle"
    /\ mproxy' \in get_random_proxy(proxies)
    /\ mi' = 1
    /\ mreqs' = <<>>
    /\ mpc' = "loop"
    /\ UNCHANGED <<poolVars, fetchVars, fetchHist, nextVars, winVars, concVars,
                   opVars, raceVars, cfgVars, infoVars, probeVars,
                   throttleVars, idVars>>

\* one iteration of "for attempt_type, proxy_to_use in attempts": the request
\* goes through the proxy if proxy_to_use is set and directly if not; a
\* failure is raised only when attempt_type is "direct"
DRequest ==
    /\ mpc = "loop"
    /\ LET a == attempts(mproxy)[mi] IN
          /\ mreqs' = Append(mreqs, IF a.proxy # <<>> THEN "proxied" ELSE "direct")
          /\ \/ /\ mpc' = "ret"
                /\ UNCHANGED mi
             \/ /\ a.type = "direct"
                /\ mpc' = "raised"
                /\ UNCHANGED mi
             \/ /\ a.type # "direct"
                /\ mi' = mi + 1
                /\ UNCHANGED mpc
    /\ UNCHANGED <<poolVars, fetchVars, fetchHist, nextVars, winVars, concVars,
                   opVars, raceVars, cfgVars, infoVars, probeVars,
                   throttleVars, idVars, mproxy>>

\* the call is over
DEnd ==
    /\ mpc \in {"ret", "raised"}
    /\ mpc' = "idle"
    /\ mproxy' = <<>>
    /\ mi' = 0
    /\ mreqs' = <<>>
    /\ UNCHANGED <<poolVars, fetchVars, fetchHist, nextVars, winVars, concVars,
                   opVars, raceVars, cfgVars, infoVars, probeVars,
                   throttleVars, idVars>>

MediaNext ==
    \/ DCall
    \/ DRequest
    \/ DEnd

MediaSpec == Init /\ [][MediaNext]_vars


\* ================================================================ claims

AllTransient == \A i \in 1..Len(errs) : Transient(errs[i])
PrimaryLoopLeft ==
    strategy = "InstagramDownloader" /\ pc \in {"alt", "done", "responded"}
FetchOver == pc \in {"done", "responded"}

\* C1: when every primary attempt of a fetch failed with a transient error
\* (connection-blocked or generic, in any mix), the fetch has made exactly 3
\* metadata resolutions by the time it falls back or fails; and no fetch ever
\* makes more than 3.
C1_ExactlyThreeAttempts ==
    /\ metaCalls <= 3
    /\ (PrimaryLoopLeft /\ Len(errs) = metaCalls /\ AllTransient) => metaCalls = 3

C1_Witness ==
    /\ pc = "done"
    /\ errs = <<"connection_blocked", "network_error", "connection_blocked">>
    /\ metaCalls = 3

\* C2: whenever the primary strategy has used up all its attempts, whatever the
\* class of the last failure, the alternate strategy got exactly one attempt.
C2_AltAfterExhaustion ==
    (FetchOver /\ Len(errs) = 3) => altCalls = 1

\* C3: when the alternate was attempted, the fetch returns the alternate's
\* payload if that attempt succeeded, and otherwise raises one error carrying
\* the primary's last error and the alternate's error.
C3_FallbackOutcome ==
    (FetchOver /\ altCalls = 1) =>
        IF altErr = <<>>
        THEN /\ raised = <<>>
             /\ Len(returned) = 1
             /\ returned[1].producer = "instagram_alt"
        ELSE /\ returned = <<>>
             /\ Len(raised) = 1
             /\ raised[1].original = errs[Len(errs)]
             /\ raised[1].alternative = altErr[1]

C3_Witness ==
    /\ pc = "done"
    /\ altCalls = 1
    /\ errs = <<"connection_blocked", "not_a_video", "network_error">>
    /\ altErr = <<"RapidAPI request failed">>
    /\ raised # <<>>

\* C4: a non-transient failure of an attempt ends the fetch at once: it is the
\* last attempt, no backoff wait follows it and the alternate is not tried.
C4_NonTransientEndsFetch ==
    \A i \in 1..Len(errs) :
        ~Transient(errs[i]) =>
            /\ i = Len(errs)
            /\ Len(waits) < i
            /\ altCalls = 0
            /\ pc # "alt"

\* C5: the wait after failed attempt k is k*5 s for a connection-blocked failure
\* and k*3 s for any other failure, waits never decrease within a fetch, and
\* there is no wait after the third attempt.
C5_Backoff ==
    /\ Len(waits) <= Len(errs)
    /\ Len(waits) < 3
    /\ \A k \in 1..Len(waits) :
          waits[k] = IF IsConnectionException(errs[k]) THEN k * 5 ELSE k * 3
    /\ \A k \in 2..Len(waits) : waits[k - 1] <= waits[k]

C5_Witness ==
    /\ pc = "done"
    /\ Len(errs) = 3
    /\ waits = <<5, 6>>

\* C6: every fetch that starts eventually ends, with exactly one of a returned
\* payload or a raised error, after at most 3 primary and 1 alternate attempts;
\* the handler then answers with exactly one response.
C6_FetchTerminates ==
    /\ (pc = "try") ~> (pc = "responded")
    /\ [](/\ metaCalls <= 3
          /\ altCalls <= 1
          /\ FetchOver => (Len(returned) + Len(raised) = 1)
          /\ ~FetchOver => (returned = <<>> /\ raised = <<>>)
          /\ (pc = "responded") => Len(response) = 1)

C6_Witness ==
    /\ pc = "responded"
    /\ metaCalls = 3
    /\ altCalls = 1
    /\ Len(response) = 1

NoDuplicates(s) == \A i, j \in 1..Len(s) : i # j => s[i] # s[j]

\* C7: right after a refresh the pool holds no two equal endpoints, whatever
\* duplicates the sources returned or the pool held before.
C7_NoDuplicatesAfterRefresh ==
    lastOp = "refresh" => NoDuplicates(proxies)

C7_Witness ==
    /\ lastOp = "refresh"
    /\ dupKinds = {"within", "pool"}
    /\ webshare
    /\ Len(proxies) = 1

\* C8: with the calls made one at a time, the cursor is a valid index whenever
\* the pool is non-empty, get_proxy never raises, and on a non-empty pool it
\* returns an endpoint of the pool.
C8_CursorValid ==
    /\ proxies # <<>> => current_index < Len(proxies)
    /\ ~nextRaised
    /\ (lastOp = "next" /\ proxies # <<>>) =>
           (Len(nextRet) = 1 /\ nextRet[1] \in Elems(proxies))

\* C9: in a run of N consecutive get_proxy calls on a pool of K > 0 entries,
\* every call returns the entry that follows in pool order, circularly from the
\* cursor, so that each entry is returned floor(N/K) or ceil(N/K) times.
C9_CircularFairness ==
    proxies # <<>> =>
        LET K == Len(proxies)
            N == winCalls
            visits(j) == Cardinality({i \in 1..Len(winRet) : winRet[i] = proxies[j]
                                        /\ (winStart + i - 1) % K = j - 1})
        IN  /\ Len(winRet) = N
            /\ \A i \in 1..Len(winRet) : winRet[i] = proxies[((winStart + i - 1) % K) + 1]
            /\ \A j \in 1..K : visits(j) \in {N \div K, (N + K - 1) \div K}

\* C10: two get_proxy calls that run concurrently on a duplicate-free pool of
\* K >= 2 entries, started with a valid cursor, return two different endpoints
\* and leave the cursor advanced by 2 modulo K.
C10_AtomicNext ==
    (/\ \A t \in Threads : tpc[t] = "ret"
     /\ Len(proxies) >= 2
     /\ NoDuplicates(proxies)
     /\ roundStart < Len(proxies)) =>
        /\ tproxy[1] # tproxy[2]
        /\ current_index = (roundStart + 2) % Len(proxies)

\* C11: with refresh, evict and random running in different threads, no pool
\* operation raises, no reader chooses from the merged but not yet
\* deduplicated pool of a running refresh, and when a refresh that began on a
\* duplicate-free pool returns, nothing was lost to its overwrite: an endpoint
\* evicted meanwhile is back only if a source returned it, and every other
\* endpoint of the old pool and of the sources is in the pool.
C11_Serialized ==
    /\ rpc # "IndexError"
    /\ ~sawMerged
    /\ (fpc = "ret" /\ NoDuplicates(fstart)) =>
          /\ \A e \in evicted : e \in Elems(proxies) => e \in ffetched
          /\ (Elems(fstart) \cup ffetched) \ evicted \subseteq Elems(proxies)

\* the strategy a platform name stands for, <<>> when it stands for none
PlatformStrategy(name, toggle) ==
    IF name = "instagram"
    THEN <<IF toggle THEN "InstagramAlternativeDownloader" ELSE "InstagramDownloader">>
    ELSE IF name = "tiktok" THEN <<"TikTokDownloader">> ELSE <<>>

\* positions of the configured list whose platform's strategy accepts the URL
Accepting(ps, toggle, url) ==
    {i \in 1..Len(ps) :
        /\ PlatformStrategy(ps[i], toggle) # <<>>
        /\ validate_url(PlatformStrategy(ps[i], toggle)[1], url)}

PlatformOf(cls) == IF cls = "TikTokDownloader" THEN "tiktok" ELSE "instagram"

Selecting == ipc \in {"selected", "unsupported"}

\* C12: get_downloader returns the strategy of the first position of the
\* configured list whose platform's strategy accepts the URL, raises
\* Unsupported platform exactly when no position accepts, and never returns
\* the strategy of a platform that is not in the list.
C12_SelectFirstAccepting ==
    Selecting =>
        LET acc == Accepting(platforms, use_alt, req_url[1]) IN
        /\ (ipc = "unsupported") <=> (acc = {})
        /\ (ipc = "selected") =>
              /\ acc # {}
              /\ \E i \in acc :
                    /\ \A j \in acc : i <= j
                    /\ selected = PlatformStrategy(platforms[i], use_alt)
              /\ PlatformOf(selected[1]) \in Elems(platforms)

C12_Witness ==
    /\ ipc = "selected"
    /\ platforms = <<"tiktok", "instagram">>
    /\ InLower("instagram.com", req_url[1])
    /\ InLower("tiktok.com", req_url[1])
    /\ selected = <<"TikTokDownloader">>

IsInstagramUrl(url) == InLower("instagram.com", url)

\* the instagram platform is the first of the list to accept the URL
InstagramFirst(ps, toggle, url) ==
    \E i \in Accepting(ps, toggle, url) :
        /\ ps[i] = "instagram"
        /\ \A j \in Accepting(ps, toggle, url) : i <= j

\* C13 as stated: with the toggle on every Instagram URL gets the alternate
\* strategy, with the toggle off every Instagram URL gets the default one, and
\* for any other URL the selection is the same under both toggle values.
C13_ToggleAtSelection ==
    Selecting =>
        LET url == req_url[1] IN
        /\ (IsInstagramUrl(url) /\ use_alt) =>
              selected = <<"InstagramAlternativeDownloader">>
        /\ (IsInstagramUrl(url) /\ ~use_alt) =>
              selected = <<"InstagramDownloader">>
        /\ ~IsInstagramUrl(url) =>
              get_downloader(platforms, TRUE, url) = get_downloader(platforms, FALSE, url)

\* C13 amended: the toggle decides between the two Instagram strategies for
\* every Instagram URL that the instagram platform is the first of the
\* configured list to accept; the default strategy is never returned with the
\* toggle on, the alternate never with the toggle off; and for any other URL
\* the selection is the same under both toggle values.
C13_ToggleAtSelection_amended ==
    Selecting =>
        LET url == req_url[1] IN
        /\ use_alt => selected # <<"InstagramDownloader">>
        /\ ~use_alt => selected # <<"InstagramAlternativeDownloader">>
        /\ (IsInstagramUrl(url) /\ InstagramFirst(platforms, use_alt, url)) =>
              selected = <<IF use_alt THEN "InstagramAlternativeDownloader"
                           ELSE "InstagramDownloader">>
        /\ ~IsInstagramUrl(url) =>
              get_downloader(platforms, TRUE, url) = get_downloader(platforms, FALSE, url)

C13_Witness ==
    /\ ipc = "selected"
    /\ use_alt
    /\ platforms = <<"tiktok", "instagram">>
    /\ IsInstagramUrl(req_url[1])
    /\ selected = <<"InstagramAlternativeDownloader">>

\* C14: in every metadata attempt, the first as well as a retry, for which
\* get_working_proxy returned nothing, the session carries no proxy: the
\* metadata request goes out directly.
C14_DirectWhenNoProxy ==
    (metaCalls >= 1 /\ wproxy = <<>>) => session_proxy = <<>>

\* C15: on a scraped pool get_working_proxy makes at most min(10, pool size)
\* probes, stops at the first probe that passes and returns the endpoint of
\* that probe, and returns None when the pool is empty or no probe passed;
\* with the trusted list it makes no probe and returns an endpoint of the pool.
C15_WorkingProbes ==
    /\ tested <= 10
    /\ tested <= Len(proxies)
    /\ passes <= 1
    /\ passes = 1 => wpc = "ret"
    /\ wpc = "ret" =>
          /\ proxies = <<>> => (wret = <<>> /\ tested = 0)
          /\ (~webshare /\ wret # <<>>) =>
                (passes = 1 /\ probed = wret /\ wret[1] \in Elems(proxies))
          /\ (~webshare /\ passes = 0) => wret = <<>>
          /\ (webshare /\ proxies # <<>>) =>
                (tested = 0 /\ Len(wret) = 1 /\ wret[1] \in Elems(proxies))

C15_Witness ==
    /\ wpc = "ret"
    /\ ~webshare
    /\ Len(proxies) = 11
    /\ tested = 10
    /\ passes = 0
    /\ wret = <<>>

\* the sequence s with every entry equal to e dropped
Without(s, e) == SelectSeq(s, LAMBDA x : x # e)

\* C16: remove_proxy(e) leaves the pool as it was with every entry equal to e
\* dropped: no entry equal to e remains, the other entries stay in their
\* order, and with e absent nothing changes and nothing is raised.
C16_EvictFrame ==
    [][(lastOp' = "evict" /\ evictArg' # <<>>) =>
           proxies' = Without(proxies, evictArg'[1])]_vars

\* C17: when fetch_proxies returns, every source was queried whatever the
\* earlier ones did, every endpoint a source returned is in the pool, and if
\* all sources failed the pool is what it was before the call.
C17_SourceFailuresIsolated ==
    fpc = "ret" =>
        /\ Len(fresults) = NumSources
        /\ ffetched \subseteq Elems(proxies)
        /\ (\A n \in 1..Len(fresults) : ~fresults[n]) => proxies = fstart

\* the get_video_stream runs of the alternate Instagram strategy in this fetch
AltRuns ==
    Elems(altRun)
    \cup (IF strategy = "InstagramAlternativeDownloader" THEN Elems(selRun) ELSE {})

\* a timeout or a throttle signal
TransientRun(r) == r.api \in {"timeout", "429"} \/ r.media = "timeout"

\* C18: a fetch through the TikTok strategy, or through the alternate
\* Instagram strategy selected by the toggle, that fails with a transient
\* network failure has been attempted 3 times.
C18_AllStrategiesRetry ==
    (/\ FetchOver
     /\ strategy \in {"TikTokDownloader", "InstagramAlternativeDownloader"}
     /\ raised # <<>>
     /\ \A r \in Elems(selRun) : TransientRun(r)) => selCalls = 3

\* a run that ended in a configuration error
MissingCredential(r) == ~r.key
Unauthorized(r) == r.api \in {"403_not_subscribed", "403"}

\* C19: a run of the alternate strategy that finds no credential makes no
\* throttle step and no request; a run answered with an unauthorized
\* subscription makes that one API request and no media request; either way
\* the run fails, it is the only run of the alternate strategy in the fetch,
\* and the fetch is over with an error.
C19_ConfigErrorTerminal ==
    \A r \in AltRuns :
        /\ MissingCredential(r) =>
              (~r.ok /\ ~r.throttled /\ r.api_calls = 0 /\ r.media_calls = 0)
        /\ Unauthorized(r) =>
              (~r.ok /\ r.api_calls = 1 /\ r.media_calls = 0)
        /\ (MissingCredential(r) \/ Unauthorized(r)) =>
              /\ FetchOver
              /\ raised # <<>>
              /\ returned = <<>>
              /\ Cardinality(AltRuns) = 1
              /\ altCalls + (IF strategy = "InstagramAlternativeDownloader"
                             THEN selCalls ELSE 0) = 1

C19_Witness ==
    /\ pc = "done"
    /\ strategy = "InstagramAlternativeDownloader"
    /\ Len(selRun) = 1
    /\ selRun[1].api = "403_not_subscribed"
    /\ raised # <<>>

\* C20: whatever strategy was selected, get_video_url either raises or
\* returns a non-empty direct URL together with the content id; a failed
\* resolution is never returned as a success with an empty URL.
C20_ResolveNeverEmpty ==
    (ipc = "resolved" /\ info_ret # <<>>) =>
        (info_ret[1].direct_url # "" /\ info_ret[1].video_id # "")

\* C21: every Instagram metadata call comes after a throttle step made since
\* the previous one, and at least min_request_interval seconds after the
\* previous one, whichever requests and attempts the two calls belong to.
C21_SelfThrottle ==
    /\ metaAt # <<>> => metaThrottled
    /\ metaGap # <<>> => metaGap[1] >= min_request_interval

\* the path holds a content-type segment followed by an id, as the pattern
\* of the strategy wants it
HasPattern(cls, u) ==
    \E i \in 1..(Len(u.segs) - 1) :
        IF cls = "TikTokDownloader"
        THEN u.segs[i] = "video" /\ Digits(u.segs[i + 1]) # ""
        ELSE u.segs[i] \in {"reel", "p", "tv"} /\ WordChars(u.segs[i + 1]) # ""

\* C22: extract_video_id of a strategy, on a URL of its platform, never
\* returns the empty string; on a URL that ends with a slash, followed by a
\* query string or not, and matches no pattern, it returns the last
\* non-empty path segment.
C22_IdNeverEmpty ==
    idpc = "extracted" =>
        LET u == id_url[1] IN
        /\ id_out[1] # <<>>
        /\ (u.slash /\ u.segs # <<>> /\ ~HasPattern(id_cls, u)) =>
              id_out[1] = <<u.segs[Len(u.segs)]>>

\* the URL without its query string and its trailing slash
Bare(u) == [u EXCEPT !.slash = FALSE, !.query = <<>>]

\* C23: on a URL with a non-empty path, extract_video_id returns what it
\* returns on the same URL without query string and trailing slash, so the
\* four variants u, u/, u?q, u/?q have one content id.
C23_IdStable ==
    (idpc = "extracted" /\ id_url[1].segs # <<>>) =>
        id_out[1] = extract_video_id(id_cls, UrlText(Bare(id_url[1])))

\* C25: a successful get_video_stream returns the content id that
\* extract_video_id of the selected strategy gives for the URL, and the
\* filename <platform>_<content id>.mp4, whether the selected strategy or
\* the alternate it fell back to produced the payload.
C25_PayloadNames ==
    idpc = "streamed" =>
        /\ id_names[1].video_id = extract_video_id(id_cls, UrlText(id_url[1]))
        /\ id_names[1].filename =
              <<PlatformOf(id_cls), "_">> \o id_names[1].video_id \o <<".mp4">>

C25_Witness ==
    /\ idpc = "streamed"
    /\ id_cls = "InstagramDownloader"
    /\ id_producer = "fallback"
    /\ id_url[1].slash
    /\ id_url[1].query # <<>>
    /\ id_names[1].video_id = <<"ABC123">>

\* C24: a pool loaded from WEBSHARE_PROXIES holds no two equal endpoints,
\* right after the load and after any get_proxy and remove_proxy calls that
\* follow, even when the variable names an endpoint twice.
C24_TrustedNoDuplicates ==
    webshare => NoDuplicates(proxies)

\* positions of the pool refreshes among the events of the fetch
RefreshAt == {i \in 1..Len(events) : events[i] = "refresh"}
AttemptsUpTo(i) == Cardinality({j \in 1..i : events[j] = "attempt"})

\* C26: in a fetch the pool is refreshed only by InstagramDownloader, only
\* right after the backoff wait that follows a failed attempt which is not
\* the last one, and the next thing the fetch does is the next attempt; a
\* fetch never ends on a refresh, and nothing is refreshed after an attempt
\* that succeeded.
C26_RefreshOrder ==
    /\ RefreshAt # {} => strategy = "InstagramDownloader"
    /\ \A i \in RefreshAt :
          /\ i > 3
          /\ events[i - 1] = "wait"
          /\ events[i - 2] = "failed"
          /\ events[i - 3] = "attempt"
          /\ AttemptsUpTo(i) < max_retries
          /\ i < Len(events) => events[i + 1] = "attempt"
    /\ \A i \in 1..Len(events) : events[i] = "ok" => i = Len(events)
    /\ (pc \in {"alt", "done", "responded"} /\ events # <<>>) =>
          events[Len(events)] # "refresh"
    /\ (lastOp = "refresh" /\ pc # "idle" /\ strategy # "") =>
          (events # <<>> /\ events[Len(events)] = "refresh")

C26_Witness ==
    /\ pc = "done"
    /\ returned # <<>>
    /\ Cardinality(RefreshAt) = 2
    /\ events[Len(events)] = "ok"

\* C27: with WEBSHARE_PROXIES set, an endpoint get_working_proxy returns,
\* which it does without probing, is one of the endpoints loaded from that
\* variable.
C27_TrustedOnly ==
    (webshare /\ wproxy # <<>>) => wproxy[1] \in trusted

\* the entries of s that are not in seen, each at its first occurrence
RECURSIVE FirstNew(_, _)
FirstNew(s, seen) ==
    IF s = <<>> THEN <<>>
    ELSE IF Head(s) \in seen THEN FirstNew(Tail(s), seen)
         ELSE <<Head(s)>> \o FirstNew(Tail(s), seen \cup {Head(s)})

Count(s, x) == Cardinality({i \in 1..Len(s) : s[i] = x})

\* C29: one call of _download_video_with_proxy makes at most one request
\* through a proxy, and only if get_random_proxy returned one, and at most
\* one direct request, which comes after the proxied one if there is one;
\* with no proxy the call is over after exactly one request, a direct one.
C29_TwoPathDownload ==
    /\ Count(mreqs, "proxied") <= 1
    /\ Count(mreqs, "direct") <= 1
    /\ Count(mreqs, "proxied") = 1 => (mproxy # <<>> /\ mreqs[1] = "proxied")
    /\ (mpc \in {"ret", "raised"} /\ mproxy = <<>>) => mreqs = <<"direct">>

====
